---- MODULE Spec2Model ----
(***************************************************************************)
(* A model of the reconciliation core of kube-arangodb:                    *)
(*   - the inspection tick  (docs/design/metrics.md: inspectDeployment,    *)
(*     inspectDeploymentWithError, isUpToDateStatus)                       *)
(*   - the agency cache     (pkg/deployment/agency/cache.go)               *)
(*   - the RuntimeContainerImageUpdate action                              *)
(*   - the resource cache   (pkg/deployment/resources/inspector)           *)
(* Every part has its own next-state relation over one set of variables;   *)
(* the variables of the other parts stay unchanged.                        *)
(***************************************************************************)
EXTENDS Integers, Sequences, FiniteSets, TLC

VARIABLES
    crSpec,                 \* spec of the ArangoDeployment object in the API server
    objState,               \* "present" | "deleting" (deletionTimestamp set) | "gone"
    annotations,            \* [maintenance, planClean] annotations of the object
    st,                     \* the persisted DeploymentStatus
    recentInspectionErrors, \* d.recentInspectionErrors
    stopped,                \* d.Stop() was called
    now,                    \* the clock, in abstract units
    envEvents,              \* number of things the outside did to the object so far
    driftTicks,             \* ticks since an immutable field of the object was edited
    tickLog,                \* what the running tick did (exit point, writes, interval)
    agencyCache,            \* cache: valid, commitIndex, data
    agentSet,               \* agentSet: result, health
    agencyLog,              \* what the last Reload did
    imageEnv,               \* what a RuntimeContainerImageUpdate action finds
    imageLog,               \* what the last Start of that action did
    inspectorState,         \* the visible resource cache: data, throttles, last
    inspectorClock,         \* the clock the throttles read
    inspectorLog,           \* what the last Refresh of the resource cache did
    agencyMode,             \* the deployment mode NewCache was called with
    singleLog,              \* what the last call on the cache of a single server returned
    cacheLock,              \* who holds the mutex of the agency cache
    reloadPc,               \* where the running Reload of the agency cache is
    readerPc,               \* where the reader of the agency cache is
    readerLog,              \* what the reader of the agency cache called and got
    swapCache,              \* the resource cache while a Refresh copies its result back
    swapReader,             \* what a reader of the resource cache has read so far
    fanKind,                \* the fan-out that runs
    fanWorkers,             \* where every worker of the fan-out is
    fanTokens,              \* the free places of the worker pool
    fanJoined,              \* the shared result of the workers
    fanState,               \* the fan-out as a whole: running, joined, crashed
    progressEnv,            \* what CheckProgress of the image update action finds
    progressLog,            \* what the last CheckProgress returned
    postEnv,                \* what Post of the image update action finds
    postLog,                \* what the last Post returned and wrote
    connCache,              \* the client cache: the connections it has made
    connLog,                \* what the last GetConnection returned, calls of the factory
    authConn,               \* the authenticating connection and the server behind it
    authLog,                \* what the last Do sent and returned
    timeoutLog,             \* what the last GetActionTimeout was asked and returned
    backupObj,              \* the ArangoBackup object: its spec and its status
    backupMock,             \* the backup client of the deployment: the backups it holds
    backupLog,              \* what the last Handle of the backup handler returned
    replObj,                \* the ArangoDeploymentReplication: finalizer, phase, cancel failures
    replWorld,              \* the two deployments, the sync master, the faults still to come
    replLog,                \* what the last runFinalizers did
    refreshCopy,            \* the copy a Refresh in progress works on, and what it owes
    invalidateLog,          \* the kinds invalidated since the last Refresh started
    refreshLog              \* the responses and the error of the last agentSet.refresh

tickVars == <<crSpec, objState, annotations, st, recentInspectionErrors, stopped,
              now, envEvents, driftTicks, tickLog>>

agencyVars == <<agencyCache, agentSet, agencyLog>>

imageVars == <<imageEnv, imageLog>>

inspectorVars == <<inspectorState, inspectorClock, inspectorLog>>

singleVars == <<agencyMode, singleLog>>

lockVars == <<cacheLock, reloadPc, readerPc, readerLog>>

swapVars == <<swapCache, swapReader>>

fanVars == <<fanKind, fanWorkers, fanTokens, fanJoined, fanState>>

threadVars == <<lockVars, swapVars, fanVars>>

progressVars == <<progressEnv, progressLog>>

postVars == <<postEnv, postLog>>

connVars == <<connCache, connLog>>

authVars == <<authConn, authLog>>

lookupVars == <<timeoutLog>>

backupVars == <<backupObj, backupMock, backupLog>>

replVars == <<replObj, replWorld, replLog>>

refreshVars == <<refreshCopy, invalidateLog>>

electVars == <<refreshLog>>

partVars == <<progressVars, postVars, connVars, authVars, lookupVars, backupVars, replVars, refreshVars, electVars>>

vars == <<tickVars, agencyVars, imageVars, inspectorVars, singleVars, threadVars, partVars>>

(***************************************************************************)
(* Bounds of the model.                                                    *)
(***************************************************************************)
MaxEnvEvents == 1
MaxTime == 4
MaxRecentErrors == 1
MaxRefreshes == 3
MaxClock == 3
MaxCommitIndex == 1
MaxSingleCalls == 3
MaxFanInputs == 3
MaxThreads == 2
MaxStarts == 2
MaxChecks == 2
MaxPosts == 2
MaxConnCalls == 3
MaxHandles == 6
MaxFaults == 1
MaxReplCalls == 2
MaxCancelCount == 7
MaxDoCalls == 5
MaxProgressTime == 2

(***************************************************************************)
(* Intervals and timeouts, in abstract units.                              *)
(***************************************************************************)
minInspectionInterval == 1
maxInspectionInterval == 2
defaultTimeout == 2
maxCancelFailures == 5

\* time.Second * 20: how long a container may go on restarting
allowedRestartPeriod == 1

Intervals == minInspectionInterval..maxInspectionInterval

ReduceTo(i, x) == IF i > x THEN x ELSE i

(***************************************************************************)
(* The deployment spec: three immutable fields and one mutable one.        *)
(* A spec with count 0 does not validate.                                  *)
(***************************************************************************)
StorageEngines == {"rocksdb", "mmfiles"}
KeySecretNames == {"key-a", "key-b"}
Modes == {"Cluster", "Single"}
Counts == 0..2

TimeoutKeys == {"BootstrapUpdate", "RuntimeContainerImageUpdate", "default"}

ImmutableFields == {"storageEngine", "keySecretName", "mode"}

FieldValues(f) ==
    CASE f = "storageEngine" -> StorageEngines
      [] f = "keySecretName" -> KeySecretNames
      [] f = "mode" -> Modes
      [] f = "count" -> Counts

\* DeploymentSpec.Checksum: a digest of the content of the spec
Checksum(spec) ==
    spec.storageEngine \o "/" \o spec.keySecretName \o "/" \o spec.mode
        \o "/" \o ToString(spec.count) \o "/" \o ToString(spec.timeouts)

Validate(spec) == spec.count > 0

\* accepted.ResetImmutableFields(spec): the immutable fields that differ
ChangedImmutableFields(accepted, spec) ==
    {f \in ImmutableFields : accepted[f] # spec[f]}

ResetImmutableFieldsKeep(accepted, spec) == spec

ResetImmutableFields(accepted, spec) ==
    [f \in DOMAIN spec |-> IF f \in ImmutableFields THEN accepted[f] ELSE spec[f]]

(***************************************************************************)
(* Conditions.                                                             *)
(***************************************************************************)
ConditionTypes == {"SpecAccepted", "UpToDate", "Reachable",
                   "BootstrapCompleted", "BootstrapSucceded"}

MemberConditions == {"Restart", "PendingRestart", "PVCResizePending"}

NoCondition == [exists |-> FALSE, status |-> FALSE, reason |-> "", message |-> "", hash |-> ""]

NewCondition(status, reason, message, hash) ==
    [exists |-> TRUE, status |-> status, reason |-> reason, message |-> message, hash |-> hash]

\* ConditionList.IsTrue
IsTrue(conditions, t) == conditions[t].exists /\ conditions[t].status

\* Conditions.Check(t).Exists().IsTrue().Evaluate()
CheckExistsIsTrue(conditions, t) == conditions[t].exists /\ conditions[t].status

\* DeploymentStatus.IsPlanEmpty
IsPlanEmpty(status) == Len(status.plan) = 0

(***************************************************************************)
(* Members and the plan.                                                   *)
(***************************************************************************)
MemberList == <<"PRMR-1">>

ActionTypes == {"BootstrapUpdate", "RuntimeContainerImageUpdate"}

NewAction(type, error) ==
    [type |-> type, error |-> error, started |-> FALSE, startTime |-> 0]

\* the plans the planner can come up with
PlanChoices ==
    { <<NewAction("BootstrapUpdate", FALSE)>>,
      <<NewAction("BootstrapUpdate", TRUE)>>,
      <<NewAction("RuntimeContainerImageUpdate", FALSE)>> }

\* registerAction(type, constructor, defaultTimeout) of the init() functions
RegisteredTypes == ActionTypes \cup {"TopologyDisable", "DisableClusterScaling"}

actionTimeouts ==
    [t \in RegisteredTypes |-> IF t = "DisableClusterScaling" THEN 0 ELSE defaultTimeout]

getActionTimeout(spec, t) ==
    IF t \in DOMAIN spec.timeouts THEN <<spec.timeouts[t]>>
    ELSE IF t \in DOMAIN actionTimeouts THEN <<actionTimeouts[t]>>
    ELSE <<>>

\* a lookup that asks for the 'default' of the spec before the type
GetActionTimeoutDefaultFirst(spec, t) ==
    IF t \in DOMAIN spec.timeouts THEN spec.timeouts[t]
    ELSE IF getActionTimeout(spec, "default") # <<>> THEN getActionTimeout(spec, "default")[1]
    ELSE IF getActionTimeout(spec, t) # <<>> THEN getActionTimeout(spec, t)[1]
    ELSE defaultTimeout

GetActionTimeout(spec, t) ==
    IF getActionTimeout(spec, t) # <<>> THEN getActionTimeout(spec, t)[1]
    ELSE IF getActionTimeout(spec, "default") # <<>> THEN getActionTimeout(spec, "default")[1]
    ELSE defaultTimeout

(***************************************************************************)
(* isUpToDateStatus                                                        *)
(***************************************************************************)
MemberPending(status, i) ==
    status.members[MemberList[i]] # {}

FirstPendingMember(status) ==
    IF \E i \in 1..Len(MemberList) : MemberPending(status, i)
    THEN CHOOSE i \in 1..Len(MemberList) :
            /\ MemberPending(status, i)
            /\ \A j \in 1..(i - 1) : ~MemberPending(status, j)
    ELSE 0

MemberReason(conds) ==
    IF "Restart" \in conds \/ "PendingRestart" \in conds
    THEN "Pending restarts on members"
    ELSE "PVC is resizing"

isUpToDateStatus(status) ==
    IF ~IsPlanEmpty(status) THEN [upToDate |-> FALSE, reason |-> "Plan is not empty"]
    ELSE IF status.acceptedSpecVersion = <<>>
            \/ status.appliedVersion # status.acceptedSpecVersion[1]
    THEN [upToDate |-> FALSE, reason |-> "Spec is not accepted"]
    ELSE IF ~CheckExistsIsTrue(status.conditions, "SpecAccepted")
    THEN [upToDate |-> FALSE, reason |-> "Spec is not accepted"]
    ELSE IF ~CheckExistsIsTrue(status.conditions, "Reachable")
    THEN [upToDate |-> FALSE, reason |-> ""]
    ELSE IF FirstPendingMember(status) # 0
    THEN [upToDate |-> FALSE,
          reason |-> MemberReason(status.members[MemberList[FirstPendingMember(status)]])]
    ELSE [upToDate |-> TRUE, reason |-> ""]

(***************************************************************************)
(* The tick works on a context: the persisted status (st), the copy of it  *)
(* taken by GetStatus() when inspectDeploymentWithError starts (status),   *)
(* the spec of d.currentObject, the plan-clean annotation, the interval    *)
(* computed so far and the log of what the tick did.                       *)
(***************************************************************************)
Ret(c, interval, err, exit) ==
    [st |-> c.st, planClean |-> c.planClean, interval |-> interval, err |-> err,
     exit |-> exit, writes |-> c.writes, exec |-> c.exec, steps |-> c.steps]

\* the tick has come to one more of its steps
Step(c, name) == [c EXCEPT !.steps = Append(@, name)]

ErrKind(e) == IF e.reconcile THEN "reconcile" ELSE "error"

\* ConditionList.UpdateWithHash: reports whether anything changed
UpdateWithHash(conditions, t, status, reason, message, hash) ==
    conditions[t] # NewCondition(status, reason, message, hash)

\* updateConditionWithHash: WithStatusUpdate persists only a change
updateConditionWithHash(c, t, status, reason, message, hash) ==
    IF UpdateWithHash(c.st.conditions, t, status, reason, message, hash)
    THEN [c EXCEPT !.st.conditions[t] = NewCondition(status, reason, message, hash),
                   !.writes = Append(@, [type |-> t, status |-> status, reason |-> reason,
                                         message |-> message, hash |-> hash])]
    ELSE c

(***************************************************************************)
(* Plan execution.  The executor runs the first action of the plan:        *)
(* Start when it has not been started, CheckProgress afterwards, and the   *)
(* timeout of the action type when CheckProgress is not ready.             *)
(***************************************************************************)
\* actionBootstrapUpdate.Start: both bootstrap conditions in one status update
BootstrapUpdateStart(s, action) ==
    IF action.error
    THEN [s EXCEPT !.conditions["BootstrapCompleted"] =
                        NewCondition(TRUE, "Bootstrap failed", "error", ""),
                    !.conditions["BootstrapSucceded"] =
                        NewCondition(FALSE, "Bootstrap failed", "error", "")]
    ELSE [s EXCEPT !.conditions["BootstrapCompleted"] =
                        NewCondition(TRUE, "Bootstrap successful",
                            "The bootstrap process has been completed successfully", ""),
                    !.conditions["BootstrapSucceded"] =
                        NewCondition(TRUE, "Bootstrap successful",
                            "The bootstrap process has been completed successfully", "")]

\* an executor for which no action ever times out
isActionTimeoutNever(spec, action, t) == FALSE

\* has the timeout of the started action expired at time t
isActionTimeout(spec, action, t) ==
    t >= action.startTime + GetActionTimeout(spec, action.type)

ExecutePlan(c, e) ==
    IF Len(c.st.plan) = 0 THEN [c EXCEPT !.exec = "idle"]
    ELSE LET action == Head(c.st.plan) IN
         IF ~action.started
         THEN IF action.type = "BootstrapUpdate"
              THEN [c EXCEPT !.st = [BootstrapUpdateStart(c.st, action)
                                        EXCEPT !.plan = Tail(c.st.plan)],
                             !.exec = "done"]
              ELSE IF e.exec = "ready"
              THEN [c EXCEPT !.st.plan = Tail(@), !.exec = "done"]
              ELSE [c EXCEPT !.st.plan[1].started = TRUE,
                             !.st.plan[1].startTime = c.now,
                             !.exec = "started"]
         ELSE IF e.exec = "ready"
              THEN [c EXCEPT !.st.plan = Tail(@), !.exec = "done"]
              ELSE IF e.exec = "abort"
              THEN [c EXCEPT !.st.plan = Tail(@), !.exec = "aborted"]
              ELSE IF isActionTimeout(c.spec, action, c.now)
              THEN [c EXCEPT !.st.plan = Tail(@), !.exec = "timeout"]
              ELSE [c EXCEPT !.exec = "polling"]

retrySoon(exec) == exec \in {"done", "started", "aborted", "timeout"}

(***************************************************************************)
(* inspectDeploymentWithError, from its end to its start.                  *)
(***************************************************************************)
\* lines 408-436: plan execution and the rest of the tick
StageExecute(c, e) ==
    IF e.fail = "ExecutePlan"
    THEN Ret(Step(c, "Execute"), minInspectionInterval, ErrKind(e), "ExecutePlanFailed")
    ELSE LET c1 == ExecutePlan(Step(c, "Execute"), e)
             c2 == IF retrySoon(c1.exec) THEN [c1 EXCEPT !.next = minInspectionInterval]
                   ELSE c1
         IN IF e.fail = "Finish"
            THEN Ret(c2, minInspectionInterval, ErrKind(e), "FinishFailed")
            ELSE Ret(c2, c2.next, "none", "end")

\* an AppliedVersion that does not wait for the plan
AppliedVersionOutdatedAnyPlan(c) ==
    /\ c.status.acceptedSpecVersion # <<>>
    /\ c.status.appliedVersion # c.status.acceptedSpecVersion[1]

\* line 379: is AppliedVersion to be set
AppliedVersionOutdated(c) ==
    /\ c.status.acceptedSpecVersion # <<>>
    /\ IsPlanEmpty(c.st)
    /\ c.status.appliedVersion # c.status.acceptedSpecVersion[1]

\* lines 391 and 399: the two UpToDate transitions
UpToDateMustBeFalse(c) ==
    ~isUpToDateStatus(c.status).upToDate /\ IsTrue(c.status.conditions, "UpToDate")

UpToDateMustBeTrue(c) ==
    isUpToDateStatus(c.status).upToDate /\ ~IsTrue(c.status.conditions, "UpToDate")

\* lines 379-406
StageUpToDate(c, e) ==
    IF AppliedVersionOutdated(c)
    THEN IF e.fail = "AppliedWrite"
         THEN Ret(c, minInspectionInterval, ErrKind(e), "AppliedVersionFailed")
         ELSE Ret([c EXCEPT !.st.appliedVersion = c.status.acceptedSpecVersion[1]],
                  minInspectionInterval, "none", "AppliedVersion")
    ELSE IF UpToDateMustBeFalse(c)
    THEN IF c.status.acceptedSpecVersion = <<>>
         THEN Ret(c, minInspectionInterval, "panic", "NilAcceptedSpecVersion")
         ELSE IF e.fail = "ConditionWrite"
         THEN Ret(c, minInspectionInterval, ErrKind(e), "UpToDateFailed")
         ELSE Ret(updateConditionWithHash(c, "UpToDate", FALSE,
                      isUpToDateStatus(c.status).reason,
                      "There are pending operations in plan or members are in restart process",
                      c.status.acceptedSpecVersion[1]),
                  minInspectionInterval, "none", "UpToDateFalse")
    ELSE IF UpToDateMustBeTrue(c)
    THEN IF e.fail = "ConditionWrite"
         THEN Ret(c, minInspectionInterval, ErrKind(e), "UpToDateFailed")
         ELSE Ret(updateConditionWithHash(c, "UpToDate", TRUE, "Spec is Up To Date",
                      "Spec is Up To Date", c.status.acceptedSpecVersion[1]),
                  minInspectionInterval, "none", "UpToDateTrue")
    ELSE StageExecute(c, e)

\* line 364
reachableConditionState(c) == CheckExistsIsTrue(c.status.conditions, "Reachable")

\* lines 363-377: a Reachable transition does not end the tick
StageReachable(c, e) ==
    IF e.reachable # reachableConditionState(c)
    THEN IF e.fail = "ReachableWrite"
         THEN Ret(c, minInspectionInterval, ErrKind(e), "ReachableFailed")
         ELSE StageUpToDate(
                  updateConditionWithHash(c, "Reachable", e.reachable,
                      IF e.reachable THEN "ArangoDB is reachable"
                      ELSE "ArangoDB is not reachable", "", ""), e)
    ELSE StageUpToDate(c, e)

\* reconciler.CreatePlan: a plan is made only when none is pending
CreatePlan(c, e) ==
    IF IsPlanEmpty(c.st) /\ e.newPlan # <<>>
    THEN [c EXCEPT !.st.plan = e.newPlan]
    ELSE c

\* lines 344-361; the conditions of the deployment come after the plan
StagePlan(c, e) ==
    IF c.planClean
    THEN IF e.fail = "PlanCleanPatch"
         THEN Ret(c, minInspectionInterval, ErrKind(e), "PlanCleanPatchFailed")
         ELSE IF e.fail = "PlanCleanStatus"
         THEN Ret([c EXCEPT !.planClean = FALSE], minInspectionInterval, ErrKind(e),
                  "PlanCleanStatusFailed")
         ELSE StageReachable(Step([c EXCEPT !.planClean = FALSE, !.st.plan = <<>>],
                                  "Conditions"), e)
    ELSE IF e.fail = "CreatePlan"
    THEN Ret(c, minInspectionInterval, ErrKind(e), "CreatePlanFailed")
    ELSE IF CreatePlan(c, e).st.plan # c.st.plan
    THEN Ret(CreatePlan(c, e), minInspectionInterval, "none", "PlanGenerated")
    ELSE StageReachable(Step(c, "Conditions"), e)

\* resources.InspectPods / InspectPVCs: member conditions of the persisted status
InspectMembers(s, e) ==
    IF e.inspect = "keep" THEN s
    ELSE IF e.inspect = "clear" THEN [s EXCEPT !.members[MemberList[1]] = {}]
    ELSE [s EXCEPT !.members[MemberList[1]] = {e.inspect}]

\* lines 255-339: the resource steps, each of which ends the tick on an error,
\* and the reload of the agency cache, whose error is only logged
StageResources(c, e) ==
    IF e.fail = "Resources"
    THEN Ret(c, minInspectionInterval, ErrKind(e), "ResourcesFailed")
    ELSE IF ~e.images
    THEN Ret(c, minInspectionInterval, "none", "ensureImages")
    ELSE StagePlan(Step(Step([c EXCEPT !.st = InspectMembers(c.st, e)], "AgencyCache"),
                        "Plan"), e)

\* lines 243-253
UpToDateMustBeReset(c) ==
    /\ ~IsTrue(c.status.conditions, "SpecAccepted")
    /\ (~c.status.conditions["UpToDate"].exists \/ c.status.conditions["UpToDate"].status)

StageSpecNotAccepted(c, e) ==
    IF UpToDateMustBeReset(c)
    THEN IF e.fail = "ConditionWrite"
         THEN Ret(c, minInspectionInterval, ErrKind(e), "UpToDateFailed")
         ELSE Ret(updateConditionWithHash(c, "UpToDate", FALSE, "Spec Changed",
                      "Spec Object changed. Waiting until plan will be applied",
                      Checksum(c.spec)),
                  minInspectionInterval, "none", "UpToDateReset")
    ELSE StageResources(c, e)

\* line 226
SpecChanged(c) ==
    /\ (c.status.acceptedSpecVersion = <<>>
            \/ Checksum(c.spec) # c.status.acceptedSpecVersion[1])
    /\ (~c.status.conditions["SpecAccepted"].exists
            \/ c.status.conditions["SpecAccepted"].status)

\* lines 232-233
SpecAccepted(c) ==
    /\ c.status.acceptedSpecVersion # <<>>
    /\ c.status.acceptedSpecVersion[1] = Checksum(c.spec)
    /\ ~IsTrue(c.status.conditions, "SpecAccepted")

\* lines 221-241
StageSpecAccepted(c, e) ==
    IF e.fail = "Checksum"
    THEN Ret(c, minInspectionInterval, ErrKind(e), "ChecksumFailed")
    ELSE LET d == Step(c, "Conditions") IN
         IF SpecChanged(d)
         THEN IF e.fail = "ConditionWrite"
              THEN Ret(d, minInspectionInterval, ErrKind(e), "SpecAcceptedFailed")
              ELSE Ret(updateConditionWithHash(d, "SpecAccepted", FALSE, "Spec Changed",
                           "Spec Object changed. Waiting to be accepted",
                           Checksum(d.spec)),
                       minInspectionInterval, "none", "SpecAcceptedFalse")
         ELSE IF SpecAccepted(d)
         THEN IF e.fail = "ConditionWrite"
              THEN Ret(d, minInspectionInterval, ErrKind(e), "SpecAcceptedFailed")
              ELSE Ret(updateConditionWithHash(d, "SpecAccepted", TRUE, "Spec Accepted",
                           "Spec Object accepted", Checksum(d.spec)),
                       minInspectionInterval, "none", "SpecAcceptedTrue")
         ELSE StageSpecNotAccepted(d, e)

inspectDeploymentWithError(status, spec, planClean, t, e) ==
    StageSpecAccepted([st |-> status, status |-> status, spec |-> spec,
                       planClean |-> planClean, now |-> t, next |-> e.last,
                       writes |-> <<>>, exec |-> "none",
                       steps |-> <<"ResourceCache", "MemberState">>], e)

(***************************************************************************)
(* acceptNewSpec: the spec-acceptance check.  A first spec is accepted     *)
(* when it validates; a changed immutable field is written back to the     *)
(* object from the accepted spec; any other valid change is accepted.      *)
(* The result tells whether the tick may proceed, whether something was    *)
(* changed, and whether there was an error.                                *)
(***************************************************************************)
AcceptResult(canProceed, changed, err, status, spec) ==
    [canProceed |-> canProceed, changed |-> changed, err |-> err, st |-> status, crSpec |-> spec]

\* an acceptance that stores a new spec without its version
AcceptDropsVersion(status, spec) ==
    IF status.acceptedSpec = <<>>
    THEN [status EXCEPT !.acceptedSpec = <<spec>>,
                        !.acceptedSpecVersion = <<Checksum(spec)>>]
    ELSE [status EXCEPT !.acceptedSpec = <<spec>>, !.acceptedSpecVersion = <<>>]

Accept(status, spec) ==
    [status EXCEPT !.acceptedSpec = <<spec>>, !.acceptedSpecVersion = <<Checksum(spec)>>]

acceptNewSpec(status, spec, e) ==
    IF status.acceptedSpec = <<>>
    THEN IF ~Validate(spec) \/ e.fail = "AcceptSpec"
         THEN AcceptResult(FALSE, FALSE, TRUE, status, spec)
         ELSE AcceptResult(TRUE, TRUE, FALSE, Accept(status, spec), spec)
    ELSE IF Checksum(status.acceptedSpec[1]) = Checksum(spec)
    THEN AcceptResult(TRUE, FALSE, FALSE, status, spec)
    ELSE IF ChangedImmutableFields(status.acceptedSpec[1], spec) # {}
    THEN IF e.fail = "AcceptSpec"
         THEN AcceptResult(FALSE, FALSE, TRUE, status, spec)
         ELSE AcceptResult(FALSE, TRUE, FALSE, status,
                           ResetImmutableFields(status.acceptedSpec[1], spec))
    ELSE IF ~Validate(spec)
    THEN AcceptResult(TRUE, FALSE, TRUE, status, spec)
    ELSE IF e.fail = "AcceptSpec"
    THEN AcceptResult(FALSE, FALSE, TRUE, status, spec)
    ELSE AcceptResult(TRUE, TRUE, FALSE, Accept(status, spec), spec)

(***************************************************************************)
(* inspectDeployment: one tick.  The result holds the new values of the    *)
(* state and the log of the tick.                                          *)
(***************************************************************************)
\* an immutable field of the object differs from the accepted spec
ImmutableDrift(spec, status) ==
    /\ status.acceptedSpec # <<>>
    /\ ChangedImmutableFields(status.acceptedSpec[1], spec) # {}

Saturate(n, max) == IF n < max THEN n + 1 ELSE max

TickResult(spec, planClean, status, errors, stop, exit, writes, exec, interval, result, err) ==
    [crSpec |-> spec, planClean |-> planClean, st |-> status,
     recentInspectionErrors |-> errors, stopped |-> stop,
     log |-> [exit |-> exit, writes |-> writes, exec |-> exec,
              result |-> result, err |-> err, steps |-> <<"ResourceCache">>,
              lastInterval |-> 0]]

\* the steps of a tick that went on after the phase check (line 166)
WithSteps(r, steps) == [r EXCEPT !.log.steps = steps]

\* lines 194-203: the interval of a tick that reached the end of inspectDeployment
FinalInterval(nextInterval, hasError, errors) ==
    ReduceTo(IF hasError /\ errors = 0 THEN minInspectionInterval ELSE nextInterval,
             maxInspectionInterval)

FinalErrors(hasError, errors) ==
    IF hasError THEN (IF errors = 0 THEN 1 ELSE errors) ELSE 0

\* lines 181-191: the interval after inspectDeploymentWithError; the interval
\* it returned is taken over only together with an error
IntervalAfterInspect(lastInterval, r) ==
    IF r.err = "error" THEN r.interval
    ELSE IF r.err = "reconcile" THEN minInspectionInterval
    ELSE lastInterval

\* lines 166-203
Reconcile(a, planClean, errors, t, e) ==
    IF e.fail = "Upgrade"
    THEN WithSteps(
             TickResult(a.crSpec, planClean, a.st, Saturate(errors, MaxRecentErrors), FALSE,
                        "UpgradeFailed", <<>>, "none", 0,
                        ReduceTo(minInspectionInterval, maxInspectionInterval), "error"),
             <<"ResourceCache", "MemberState">>)
    ELSE LET r == inspectDeploymentWithError(a.st, a.crSpec, planClean, t, e) IN
         IF r.err = "panic"
         THEN WithSteps(TickResult(a.crSpec, r.planClean, r.st, errors, TRUE, r.exit,
                                   r.writes, r.exec, 0, 0, r.err), r.steps)
         ELSE WithSteps(
                  TickResult(a.crSpec, r.planClean, r.st,
                             FinalErrors(r.err = "error", errors), FALSE, r.exit, r.writes,
                             r.exec, r.interval,
                             FinalInterval(IntervalAfterInspect(e.last, r), r.err = "error",
                                           errors),
                             r.err), r.steps)

\* a tick that does not look at the maintenance annotation
inspectDeploymentInMaintenance(spec, state, ann, status, errors, t, e) ==
    IF ~e.refresh
    THEN TickResult(spec, ann.planClean, status, errors, FALSE, "RefreshFailed", <<>>,
                    "none", 0, minInspectionInterval, "error")
    ELSE IF state = "gone"
    THEN TickResult(spec, ann.planClean, status, errors, TRUE, "Gone", <<>>, "none", 0,
                    e.last, "none")
    ELSE IF state = "deleting"
    THEN TickResult(spec, ann.planClean, status, FinalErrors(e.fail = "Finalizers", errors),
                    FALSE, "Finalizers", <<>>, "none", 0,
                    FinalInterval(e.last, e.fail = "Finalizers", errors),
                    IF e.fail = "Finalizers" THEN "error" ELSE "none")
    ELSE LET a == acceptNewSpec(status, spec, e) IN
         IF a.err /\ ~a.canProceed
         THEN TickResult(a.crSpec, ann.planClean, a.st, errors, FALSE, "SpecRejected", <<>>,
                         "none", 0, minInspectionInterval, "error")
         ELSE IF ~a.err /\ a.changed
         THEN TickResult(a.crSpec, ann.planClean, a.st, errors, FALSE,
                         IF a.canProceed THEN "SpecAcceptedNew" ELSE "SpecRestored", <<>>,
                         "none", 0, minInspectionInterval, "none")
         ELSE IF ~a.err /\ ~a.canProceed
         THEN TickResult(a.crSpec, ann.planClean, a.st, errors, FALSE, "CannotProceed", <<>>,
                         "none", 0, minInspectionInterval, "error")
         ELSE IF a.st.phase = "Failed"
         THEN TickResult(a.crSpec, ann.planClean, a.st, errors, FALSE, "PhaseFailed", <<>>,
                         "none", 0, e.last, "none")
         ELSE Reconcile(a, ann.planClean, errors, t, e)

\* lines 73-204
inspectDeployment(spec, state, ann, status, errors, t, e) ==
    IF ~e.refresh
    THEN TickResult(spec, ann.planClean, status, errors, FALSE, "RefreshFailed", <<>>,
                    "none", 0, minInspectionInterval, "error")
    ELSE IF state = "gone"
    THEN TickResult(spec, ann.planClean, status, errors, TRUE, "Gone", <<>>, "none", 0,
                    e.last, "none")
    ELSE IF state = "deleting"
    THEN TickResult(spec, ann.planClean, status, FinalErrors(e.fail = "Finalizers", errors),
                    FALSE, "Finalizers", <<>>, "none", 0,
                    FinalInterval(e.last, e.fail = "Finalizers", errors),
                    IF e.fail = "Finalizers" THEN "error" ELSE "none")
    ELSE IF ann.maintenance
    THEN TickResult(spec, ann.planClean, status, errors, FALSE, "Maintenance", <<>>,
                    "none", 0, e.last, "none")
    ELSE LET a == acceptNewSpec(status, spec, e) IN
         IF a.err /\ ~a.canProceed
         THEN TickResult(a.crSpec, ann.planClean, a.st, errors, FALSE, "SpecRejected", <<>>,
                         "none", 0, minInspectionInterval, "error")
         ELSE IF ~a.err /\ a.changed
         THEN TickResult(a.crSpec, ann.planClean, a.st, errors, FALSE,
                         IF a.canProceed THEN "SpecAcceptedNew" ELSE "SpecRestored", <<>>,
                         "none", 0, minInspectionInterval, "none")
         ELSE IF ~a.err /\ ~a.canProceed
         THEN TickResult(a.crSpec, ann.planClean, a.st, errors, FALSE, "CannotProceed", <<>>,
                         "none", 0, minInspectionInterval, "error")
         ELSE IF a.st.phase = "Failed"
         THEN TickResult(a.crSpec, ann.planClean, a.st, errors, FALSE, "PhaseFailed", <<>>,
                         "none", 0, e.last, "none")
         ELSE Reconcile(a, ann.planClean, errors, t, e)

(***************************************************************************)
(* The inputs of a tick: the outcome of every call the tick makes to the   *)
(* outside.  fail names the one call of the tick that returns an error     *)
(* (the tick ends at the first error); inputs a tick cannot reach keep     *)
(* their default value.  The member conditions change only in a tick      *)
(* that finds the cluster reachable, makes no plan and leaves the action   *)
(* of the plan waiting.                                                    *)
(***************************************************************************)
EnvBase ==
    [refresh |-> TRUE, fail |-> "none", reconcile |-> FALSE,
     last |-> minInspectionInterval, images |-> TRUE,
     inspect |-> "keep", reachable |-> TRUE, newPlan |-> <<>>, exec |-> "ready"]

InspectChoices == {"clear"} \cup MemberConditions

ExecChoices(status) ==
    IF IsPlanEmpty(status) \/ Head(status.plan).type = "BootstrapUpdate" THEN {"ready"}
    ELSE IF ~Head(status.plan).started THEN {"ready", "wait"}
    ELSE {"ready", "wait", "abort"}

NewPlanChoices(status, planClean) ==
    IF IsPlanEmpty(status) /\ ~planClean THEN PlanChoices ELSE {}

EnvEarly ==
    {[EnvBase EXCEPT !.refresh = FALSE]}
    \cup {[EnvBase EXCEPT !.fail = "Finalizers", !.last = l] : l \in Intervals}
    \cup {[EnvBase EXCEPT !.fail = f] :
            f \in {"AcceptSpec", "Upgrade", "Checksum", "ConditionWrite"}}
    \cup {[EnvBase EXCEPT !.fail = "Resources", !.reconcile = r] : r \in BOOLEAN}
    \cup {[EnvBase EXCEPT !.images = FALSE]}

EnvPlanFail(planClean) ==
    IF planClean
    THEN {[EnvBase EXCEPT !.fail = f] : f \in {"PlanCleanPatch", "PlanCleanStatus"}}
    ELSE {[EnvBase EXCEPT !.fail = "CreatePlan", !.reconcile = r] : r \in BOOLEAN}

EnvLateFail(status) ==
    {[EnvBase EXCEPT !.fail = f, !.reachable = b] :
        f \in {"ReachableWrite", "AppliedWrite", "ConditionWrite"}, b \in BOOLEAN}
    \cup {[EnvBase EXCEPT !.fail = "ExecutePlan", !.reconcile = r, !.reachable = b] :
            r \in BOOLEAN, b \in BOOLEAN}
    \cup {[EnvBase EXCEPT !.fail = "Finish", !.reachable = b, !.exec = x] :
            b \in BOOLEAN, x \in ExecChoices(status)}

EnvFull(status, planClean) ==
    {[EnvBase EXCEPT !.last = l, !.inspect = i, !.exec = "wait"] :
        l \in Intervals, i \in InspectChoices}
    \cup {[EnvBase EXCEPT !.last = l, !.newPlan = p] :
            l \in Intervals, p \in NewPlanChoices(status, planClean)}
    \cup {[EnvBase EXCEPT !.last = l, !.reachable = b, !.exec = o] :
            l \in Intervals, b \in BOOLEAN, o \in ExecChoices(status)}

Env(status, planClean) ==
    EnvEarly \cup EnvPlanFail(planClean) \cup EnvLateFail(status) \cup EnvFull(status, planClean)

(***************************************************************************)
(* Initial state: a new ArangoDeployment with an empty status.             *)
(***************************************************************************)
NoTimeouts == [k \in {} |-> 0]

InitialSpec ==
    [storageEngine |-> "rocksdb", keySecretName |-> "key-a", mode |-> "Cluster",
     count |-> 1, timeouts |-> NoTimeouts]

EmptyStatus ==
    [acceptedSpec |-> <<>>, acceptedSpecVersion |-> <<>>, appliedVersion |-> "",
     conditions |-> [t \in ConditionTypes |-> NoCondition], plan |-> <<>>,
     members |-> [i \in {MemberList[k] : k \in 1..Len(MemberList)} |-> {}],
     phase |-> "Running"]

NoTick ==
    [exit |-> "none", writes |-> <<>>, exec |-> "none", result |-> 0, err |-> "none",
     steps |-> <<>>, lastInterval |-> 0]

TickStart(spec) ==
    /\ crSpec = spec
    /\ objState = "present"
    /\ annotations = [maintenance |-> FALSE, planClean |-> FALSE]
    /\ st = EmptyStatus
    /\ recentInspectionErrors = 0
    /\ stopped = FALSE
    /\ now = 0
    /\ envEvents = 0
    /\ driftTicks = 0
    /\ tickLog = NoTick

InitTick == TickStart(InitialSpec)

\* the timeouts of actions a spec can set
TimeoutChoices ==
    {NoTimeouts, [k \in {"RuntimeContainerImageUpdate"} |-> 1], [k \in {"default"} |-> 3]}

InitTimeout == \E t \in TimeoutChoices : TickStart([InitialSpec EXCEPT !.timeouts = t])


(***************************************************************************)
(* The inspection loop runs one tick, then waits for the interval the tick *)
(* returned; the outside acts on the object while the loop waits.          *)
(***************************************************************************)
otherThanTick == <<agencyVars, imageVars, inspectorVars, singleVars, threadVars, partVars>>

Tick ==
    /\ ~stopped
    /\ tickLog = NoTick
    /\ \E e \in Env(st, annotations.planClean) :
        \E r \in {inspectDeployment(crSpec, objState, annotations, st,
                                     recentInspectionErrors, now, e)} :
           /\ crSpec' = r.crSpec
           /\ annotations' = [annotations EXCEPT !.planClean = r.planClean]
           /\ st' = r.st
           /\ recentInspectionErrors' = r.recentInspectionErrors
           /\ stopped' = r.stopped
           /\ tickLog' = [r.log EXCEPT !.lastInterval = e.last]
           /\ driftTicks' = IF ImmutableDrift(r.crSpec, r.st)
                            THEN Saturate(driftTicks, 2) ELSE 0
    /\ UNCHANGED <<objState, now, envEvents>>
    /\ UNCHANGED otherThanTick

Wait ==
    /\ tickLog # NoTick
    /\ tickLog' = NoTick
    /\ UNCHANGED <<crSpec, objState, annotations, st, recentInspectionErrors, stopped, now,
                   envEvents, driftTicks>>
    /\ UNCHANGED otherThanTick

\* somebody edits one field of the spec of the object
ExternalSpecChange ==
    /\ tickLog = NoTick
    /\ objState = "present"
    /\ envEvents < MaxEnvEvents
    /\ \E f \in ImmutableFields \cup {"count"} : \E v \in FieldValues(f) :
        /\ crSpec[f] # v
        /\ crSpec' = [crSpec EXCEPT ![f] = v]
    /\ envEvents' = envEvents + 1
    /\ driftTicks' = 0
    /\ UNCHANGED <<objState, annotations, st, recentInspectionErrors, stopped, now, tickLog>>
    /\ UNCHANGED otherThanTick

SetMaintenance ==
    /\ tickLog = NoTick
    /\ objState = "present"
    /\ envEvents < MaxEnvEvents
    /\ annotations' = [annotations EXCEPT !.maintenance = ~@]
    /\ envEvents' = envEvents + 1
    /\ UNCHANGED <<crSpec, objState, st, recentInspectionErrors, stopped, now, driftTicks,
                   tickLog>>
    /\ UNCHANGED otherThanTick

RequestPlanClean ==
    /\ tickLog = NoTick
    /\ objState = "present"
    /\ envEvents < MaxEnvEvents
    /\ ~annotations.planClean
    /\ annotations' = [annotations EXCEPT !.planClean = TRUE]
    /\ envEvents' = envEvents + 1
    /\ UNCHANGED <<crSpec, objState, st, recentInspectionErrors, stopped, now, driftTicks,
                   tickLog>>
    /\ UNCHANGED otherThanTick

DeleteDeployment ==
    /\ tickLog = NoTick
    /\ objState = "present"
    /\ envEvents < MaxEnvEvents
    /\ objState' = "deleting"
    /\ envEvents' = envEvents + 1
    /\ UNCHANGED <<crSpec, annotations, st, recentInspectionErrors, stopped, now, driftTicks,
                   tickLog>>
    /\ UNCHANGED otherThanTick

\* the API server removes the deleted object
RemoveDeployment ==
    /\ tickLog = NoTick
    /\ objState = "deleting"
    /\ objState' = "gone"
    /\ UNCHANGED <<crSpec, annotations, st, recentInspectionErrors, stopped, now, envEvents,
                   driftTicks, tickLog>>
    /\ UNCHANGED otherThanTick

\* time passes while the loop waits
Advance ==
    /\ tickLog = NoTick
    /\ now < MaxTime
    /\ now' = now + 1
    /\ UNCHANGED <<crSpec, objState, annotations, st, recentInspectionErrors, stopped,
                   envEvents, driftTicks, tickLog>>
    /\ UNCHANGED otherThanTick

NextTimeout ==
    \/ Tick
    \/ Wait
    \/ Advance

Next ==
    \/ Tick
    \/ Wait
    \/ ExternalSpecChange
    \/ SetMaintenance
    \/ RequestPlanClean
    \/ DeleteDeployment
    \/ RemoveDeployment


(***************************************************************************)
(* The agency cache (pkg/deployment/agency): agentSet.refresh asks every   *)
(* agent for its config and elects the leader, cache.Reload loads the      *)
(* state of the agency from the leader.                                    *)
(***************************************************************************)
Agents == {"AGNT-1", "AGNT-2"}

\* the ids an agent can name as the leader: none, an agent, an unknown server
LeaderIds == {""} \cup Agents \cup {"AGNT-x"}

CommitIndexes == 0..MaxCommitIndex

ActiveChoices == {Agents} \cup {{a} : a \in Agents}

\* getAgencyConfigResult of one agent: an error, or the config of the agent
ErrorResponse == [err |-> TRUE, leaderId |-> "", commitIndex |-> 0, active |-> {}]

ConfigResponses ==
    [err : {FALSE}, leaderId : LeaderIds, commitIndex : CommitIndexes, active : ActiveChoices]

AgentResponses == {ErrorResponse} \cup ConfigResponses

\* getAgencyConfigResults: one result per client of the set
getAgencyConfigResults == [Agents -> AgentResponses]

\* the leaders the loop over the results can end with: the loop takes the
\* first response in the order of the map that names a leader
LeaderCandidates(r) ==
    {r[a].leaderId : a \in {x \in Agents : ~r[x].err /\ r[x].leaderId # ""}}

NoAgentSetResult == <<>>

\* a.clients: the connection to an agent, registered under the id of the agent
Clients == [a \in Agents |-> "conn-" \o a]

\* the connection of a result whose conn field was not set
NoConnection == ""

\* a health map that marks only the active agents that answered
HealthActiveOnly(r, leader) ==
    {z \in r[leader].active : z \in DOMAIN r /\ ~r[z].err}

\* lines 160-167: the leader is healthy, and so is every agent of the active
\* list of the leader that answered without an error
Health(r, leader) ==
    {leader} \cup {z \in r[leader].active : z \in DOMAIN r /\ ~r[z].err}

\* a refresh that does not look for the leader
refreshWithoutLeader(r, leader) ==
    [err |-> "", result |-> <<[id |-> leader, commitIndex |-> 0, conn |-> NoConnection]>>,
     health |-> {}]

\* agentSet.refresh with the results r and the leader the loop ended with
\* ("" when no response names one); result and health are assigned by the
\* deferred function, also on an error
refresh(r, leader) ==
    IF leader = ""
    THEN [err |-> "NoLeader in Agency", result |-> NoAgentSetResult, health |-> {}]
    ELSE IF leader \notin DOMAIN r
    THEN [err |-> "Leader not in result list", result |-> NoAgentSetResult, health |-> {}]
    ELSE IF r[leader].err
    THEN [err |-> "Error while fetching from agency", result |-> NoAgentSetResult,
          health |-> {}]
    ELSE [err |-> "",
          result |-> <<[id |-> leader, commitIndex |-> r[leader].commitIndex,
                        conn |-> NoConnection]>>,
          health |-> Health(r, leader)]

\* agentSet.Leader
Leader(set) ==
    IF set.result = NoAgentSetResult
    THEN [id |-> "", commitIndex |-> 0, conn |-> NoConnection, ok |-> FALSE]
    ELSE [id |-> set.result[1].id, commitIndex |-> set.result[1].commitIndex,
          conn |-> set.result[1].conn, ok |-> TRUE]

\* the State loadState reads from the leader at a commit index
NoState == <<>>

StateAt(leader, commitIndex) == <<leader, commitIndex>>

\* a cache that never finds itself on the index of the leader
SameIndexNever(c, commitIndex) == FALSE

\* a cache that does not look at its valid flag
SameIndexOfInvalid(c, commitIndex) == commitIndex = c.commitIndex

\* line 154: the cache is on the same index, nothing to do
SameIndex(c, commitIndex) == commitIndex = c.commitIndex /\ c.valid

\* lines 159-167: loadState through the connection of the leader l; an error
\* marks the cache as not valid, a State is stored with the index of the leader
StoreState(c, l, loadOk) ==
    IF loadOk
    THEN [valid |-> TRUE, commitIndex |-> l.commitIndex,
          data |-> StateAt(l.id, l.commitIndex)]
    ELSE [c EXCEPT !.valid = FALSE]

ReloadResult(c, set, ret, err, fetched) ==
    [cache |-> c, set |-> set, ret |-> ret, err |-> err, fetched |-> fetched]

\* cache.Reload with the agents' responses, the elected leader and the
\* outcome of loadState
Reload(c, r, leader, loadOk) ==
    LET f == refresh(r, leader)
        set == [result |-> f.result, health |-> f.health]
        l == Leader(set)
    IN IF f.err # "" THEN ReloadResult(c, set, 0, f.err, FALSE)
       ELSE IF ~l.ok THEN ReloadResult(c, set, 0, "Set did not refresh properly", FALSE)
       ELSE IF SameIndex(c, l.commitIndex) THEN ReloadResult(c, set, l.commitIndex, "", FALSE)
       ELSE ReloadResult(StoreState(c, l, loadOk), set, l.commitIndex,
                         IF loadOk THEN "" ELSE "loadState", TRUE)

\* the agents that answered without an error
Responded(r) == {a \in Agents : ~r[a].err}

\* the active list of the config of the leader, when the leader answered
ActiveOfLeader(r, leader) ==
    IF leader \in Responded(r) THEN r[leader].active ELSE {}

\* the log of a Reload: the leaders the responses name and the one the loop
\* over them ended with, who answered, the active list of the leader, what
\* Reload did and returned
NoReload ==
    [called |-> FALSE, named |-> {}, leader |-> "", responded |-> {}, active |-> {},
     observed |-> <<>>, fetched |-> FALSE, conn |-> NoConnection, ret |-> 0, err |-> "",
     noops |-> 0]

\* a cache that is the agency cache in every mode
NewCacheOfAgency(mode) == "cache"

\* NewCache: the cache of a single server in Single mode, else the agency cache
NewCache(mode) == IF mode = "Single" THEN "cacheSingle" ELSE "cache"

NoSingleCall == [calls |-> 0, method |-> "", result |-> <<>>]

\* the deployment is a cluster
ClusterMode ==
    /\ agencyMode = "Cluster"
    /\ singleLog = NoSingleCall

InitMode ==
    /\ agencyMode \in Modes
    /\ singleLog = NoSingleCall

InitAgency ==
    /\ agencyCache = [valid |-> FALSE, commitIndex |-> 0, data |-> NoState]
    /\ agentSet = [result |-> NoAgentSetResult, health |-> {}]
    /\ agencyLog = NoReload

\* a Reload that found the cache valid and on the index of the leader
IsNoop(c, x) ==
    /\ x.err = ""
    /\ c.valid
    /\ x.set.result # NoAgentSetResult
    /\ x.set.result[1].commitIndex = c.commitIndex

otherThanAgency == <<tickVars, imageVars, inspectorVars, threadVars, partVars>>

CacheReload ==
    /\ NewCache(agencyMode) = "cache"
    /\ \E r \in getAgencyConfigResults, loadOk \in BOOLEAN :
        \E leader \in (IF LeaderCandidates(r) = {} THEN {""} ELSE LeaderCandidates(r)) :
          \E x \in {Reload(agencyCache, r, leader, loadOk)} :
            /\ agencyCache' = x.cache
            /\ agentSet' = x.set
            /\ agencyLog' = [called |-> TRUE,
                             named |-> LeaderCandidates(r),
                             leader |-> leader,
                             responded |-> Responded(r),
                             active |-> ActiveOfLeader(r, leader),
                             conn |-> IF x.fetched THEN Leader(x.set).conn ELSE NoConnection,
                             observed |-> IF x.set.result = NoAgentSetResult THEN <<>>
                                          ELSE <<x.set.result[1].commitIndex>>,
                             fetched |-> x.fetched, ret |-> x.ret, err |-> x.err,
                             noops |-> IF IsNoop(agencyCache, x)
                                       THEN Saturate(agencyLog.noops, 2) ELSE 0]
    /\ UNCHANGED singleVars
    /\ UNCHANGED otherThanAgency

(***************************************************************************)
(* The cache of a deployment in Single mode (cacheSingle): it holds        *)
(* nothing and asks nobody: no method of it reaches the agent set or the   *)
(* clients.  The log holds the method called last and what it returned.    *)
(***************************************************************************)
cacheSingleReload == [ret |-> 0, err |-> ""]

cacheSingleCommitIndex == [ret |-> 0]

cacheSingleData == [data |-> NoState, valid |-> TRUE]

\* cacheSingleSet: Size, Leader, Agent and Health of the set of cacheSingle
cacheSingleSet ==
    [size |-> 0,
     leader |-> [id |-> "", commitIndex |-> 0, conn |-> NoConnection, ok |-> FALSE],
     agent |-> [conn |-> NoConnection, ok |-> FALSE],
     health |-> {}]

SingleCall(method, result) ==
    /\ NewCache(agencyMode) = "cacheSingle"
    /\ singleLog.calls < MaxSingleCalls
    /\ singleLog' = [calls |-> singleLog.calls + 1, method |-> method,
                     result |-> <<result>>]
    /\ UNCHANGED <<agencyMode, agencyVars>>
    /\ UNCHANGED otherThanAgency

SingleReload == SingleCall("Reload", cacheSingleReload)

SingleCommitIndex == SingleCall("CommitIndex", cacheSingleCommitIndex)

SingleData == SingleCall("Data", cacheSingleData)

SingleAgentSet == SingleCall("AgentSet", cacheSingleSet)

NextAgency ==
    \/ CacheReload
    \/ SingleReload
    \/ SingleCommitIndex
    \/ SingleData
    \/ SingleAgentSet

(***************************************************************************)
(* The RuntimeContainerImageUpdate action                                  *)
(* (pkg/deployment/reconcile/action_runtime_container_image_update.go).    *)
(* The pod of the member has two containers; the action names a container  *)
(* and the image it is to run.  podCache is the pod as the cluster cache   *)
(* hands it out, podServer the pod in the API server.                      *)
(***************************************************************************)
Images == {"arangodb:1", "arangodb:2"}

TargetImage == "arangodb:2"

ContainerNames == <<"server", "exporter">>

NewPod(image) ==
    <<[name |-> ContainerNames[1], image |-> image],
      [name |-> ContainerNames[2], image |-> "exporter:1"]>>

\* the names of the containers in a pod template of the ArangoMember
TemplateChoices ==
    {ContainerNames, <<ContainerNames[1]>>, <<ContainerNames[2], ContainerNames[1]>>}

\* the parameters of the action: none, or container name and image
ParamChoices ==
    {<<>>} \cup {<<[name |-> n, image |-> TargetImage]>> : n \in {"server", "sidecar"}}

ImageEnvs ==
    [memberPresent : BOOLEAN,          \* GetMemberStatusByID finds the member
     clusterCache : BOOLEAN,           \* ACS().ClusterCache(m.ClusterID) is there
     params : ParamChoices,
     phaseReady : BOOLEAN,             \* m.Phase.IsReady()
     arangoMember : BOOLEAN,           \* the ArangoMember is in the cache
     specTemplate : {<<>>} \cup {<<t>> : t \in TemplateChoices},
     statusTemplate : {<<>>} \cup {<<t>> : t \in TemplateChoices},
     podCache : {<<>>} \cup {<<NewPod(i)>> : i \in Images},
     podServer : {NewPod(i) : i \in Images}]

\* getContainerDetails
getContainerDetails(env) ==
    IF env.params = <<>> THEN [name |-> "", image |-> "", ok |-> FALSE]
    ELSE [name |-> env.params[1].name, image |-> env.params[1].image, ok |-> TRUE]

StartResult(env, ready, err, updated) ==
    [env |-> env, ready |-> ready, err |-> err, updated |-> updated]

\* lines 188-204: the first container with the name of the action in pod,
\* spec and status; 0 when there is none
MatchingContainer(pod, spec, status, name) ==
    IF \E id \in 1..Len(pod) :
            pod[id].name = spec[id] /\ pod[id].name = status[id] /\ pod[id].name = name
    THEN CHOOSE id \in 1..Len(pod) :
            /\ pod[id].name = spec[id] /\ pod[id].name = status[id] /\ pod[id].name = name
            /\ \A j \in 1..(id - 1) :
                ~(pod[j].name = spec[j] /\ pod[j].name = status[j] /\ pod[j].name = name)
    ELSE 0

\* lines 194-203: the image is written into the pod object the cache handed
\* out, then the pod is sent to the API server.  shared tells whether that
\* object is the one the cache keeps.
UpdatePodImage(env, id, image, updateOk, shared) ==
    LET pod == [env.podCache[1] EXCEPT ![id].image = image]
        cached == IF shared THEN [env EXCEPT !.podCache = <<pod>>] ELSE env
    IN IF updateOk
       THEN StartResult([cached EXCEPT !.podServer = pod], FALSE, "", TRUE)
       ELSE StartResult(cached, TRUE, "Update", TRUE)

\* a Start that takes every image for a different one
ImageDiffersAlways(env, id, image) == TRUE

\* line 194
ImageDiffers(env, id, image) == env.podCache[1][id].image # image

\* actionRuntimeContainerImageUpdate.Start
Start(env, updateOk, shared) ==
    LET d == getContainerDetails(env) IN
    IF ~env.memberPresent THEN StartResult(env, TRUE, "", FALSE)
    ELSE IF ~env.clusterCache THEN StartResult(env, TRUE, "Client is not ready", FALSE)
    ELSE IF ~d.ok THEN StartResult(env, TRUE, "", FALSE)
    ELSE IF ~env.phaseReady THEN StartResult(env, TRUE, "", FALSE)
    ELSE IF ~env.arangoMember THEN StartResult(env, FALSE, "ArangoMember not found", FALSE)
    ELSE IF env.podCache = <<>> THEN StartResult(env, TRUE, "", FALSE)
    ELSE IF env.specTemplate = <<>> THEN StartResult(env, TRUE, "", FALSE)
    ELSE IF env.statusTemplate = <<>> THEN StartResult(env, TRUE, "", FALSE)
    ELSE IF Len(env.podCache[1]) # Len(env.specTemplate[1])
    THEN StartResult(env, TRUE, "", FALSE)
    ELSE IF Len(env.podCache[1]) # Len(env.statusTemplate[1])
    THEN StartResult(env, TRUE, "", FALSE)
    ELSE LET id == MatchingContainer(env.podCache[1], env.specTemplate[1],
                                     env.statusTemplate[1], d.name)
         IN IF id = 0 THEN StartResult(env, TRUE, "", FALSE)
            ELSE IF ImageDiffers(env, id, d.image)
            THEN UpdatePodImage(env, id, d.image, updateOk, shared)
            ELSE StartResult(env, TRUE, "", FALSE)

\* the container the action names has the image of the action in the pod
\* the cache hands out
TargetSatisfied(env) ==
    /\ env.params # <<>>
    /\ env.podCache # <<>>
    /\ \E id \in 1..Len(env.podCache[1]) :
        /\ env.podCache[1][id].name = env.params[1].name
        /\ env.podCache[1][id].image = env.params[1].image

otherThanImage == <<tickVars, agencyVars, inspectorVars, singleVars, threadVars, partVars>>

NoStart ==
    [starts |-> 0, ready |-> FALSE, err |-> "", updated |-> FALSE, satisfied |-> FALSE,
     afterUpdate |-> FALSE, sawUpdate |-> FALSE]

ImageIdle ==
    /\ imageEnv = [memberPresent |-> TRUE, clusterCache |-> TRUE, params |-> <<>>,
                   phaseReady |-> TRUE, arangoMember |-> TRUE, specTemplate |-> <<>>,
                   statusTemplate |-> <<>>, podCache |-> <<>>,
                   podServer |-> NewPod(TargetImage)]
    /\ imageLog = NoStart

InitImage ==
    /\ imageEnv \in ImageEnvs
    /\ imageEnv.podCache \in {<<>>, <<imageEnv.podServer>>}
    /\ imageLog = NoStart

\* the executor calls Start; afterUpdate: the Start before this one sent the
\* pod to the API server and that worked; sawUpdate: this Start is handed the
\* pod as the API server has it
StartAction ==
    /\ imageLog.starts < MaxStarts
    /\ \E updateOk \in BOOLEAN, shared \in BOOLEAN :
        \E x \in {Start(imageEnv, updateOk, shared)} :
            /\ imageEnv' = x.env
            /\ imageLog' = [starts |-> imageLog.starts + 1, ready |-> x.ready, err |-> x.err,
                            updated |-> x.updated, satisfied |-> TargetSatisfied(imageEnv),
                            afterUpdate |-> imageLog.updated /\ ~imageLog.ready
                                                /\ imageLog.err = "",
                            sawUpdate |-> imageEnv.podCache = <<imageEnv.podServer>>]
    /\ UNCHANGED otherThanImage

\* the cluster cache loads the pods again
RefreshPods ==
    /\ imageEnv.podCache # <<imageEnv.podServer>>
    /\ imageEnv.podCache # <<>>
    /\ imageEnv' = [imageEnv EXCEPT !.podCache = <<imageEnv.podServer>>]
    /\ UNCHANGED imageLog
    /\ UNCHANGED otherThanImage

NextImage ==
    \/ StartAction
    \/ RefreshPods

(***************************************************************************)
(* The resource cache.  inspectorState holds, for every kind, the data of  *)
(* the last successful load, the result of the last read of the            *)
(* deployment, one throttle per kind, the time of the last refresh and     *)
(* the initialised flag.  Refresh builds a copy, loads into the copy,      *)
(* verifies it and copies it back.                                         *)
(***************************************************************************)
Components == <<"Pod", "Secret">>

ComponentSet == {Components[k] : k \in DOMAIN Components}

\* time.Time{}: the zero time, before every time of the clock
ZeroTime == -1

\* time.UnixMilli(0)
UnixMilliZero == 0

Delays == {0, 1}

\* NewThrottle: a delay of 0 gives an alwaysThrottle, which has a count only
NewThrottle(delay) == [delay |-> delay, next |-> ZeroTime, count |-> 0]

\* Throttle(): is the kind to be loaded now
Throttle(t, clock) ==
    IF t.delay = 0 THEN TRUE ELSE t.next = ZeroTime \/ t.next < clock

\* a Delay that counts and opens no window
DelayCountOnly(t, clock) == [t EXCEPT !.count = @ + 1]

\* Delay(): the next load is allowed after now + delay
Delay(t, clock) ==
    IF t.delay = 0
    THEN [t EXCEPT !.count = @ + 1]
    ELSE [t EXCEPT !.next = clock + t.delay, !.count = @ + 1]

Invalidate(t) ==
    IF t.delay = 0 THEN t ELSE [t EXCEPT !.next = UnixMilliZero]

\* Copy(): alwaysThrottle returns the receiver, throttle returns a new object
CopyIsReceiver(t) == t.delay = 0

NoData == [at |-> ZeroTime, err |-> FALSE]

NoDeploymentResult == [at |-> ZeroTime, err |-> FALSE]

NewInspector(delays) ==
    [data |-> [c \in ComponentSet |-> NoData],
     deploymentResult |-> NoDeploymentResult,
     throttles |-> [c \in ComponentSet |-> NewThrottle(delays[c])],
     last |-> ZeroTime,
     initialised |-> FALSE]

\* copyCore: the copy shares the data of every kind and the deployment
\* result; its throttles are the copies of the throttles
copyCore(i) == [data |-> i.data, deploymentResult |-> i.deploymentResult,
                throttles |-> i.throttles]

\* what a refresh finds: the outcome of the load of every kind, of the read
\* of the deployment and of validate()
RefreshEnvs ==
    [loadErr : [ComponentSet -> BOOLEAN], deploymentErr : BOOLEAN, validateOk : BOOLEAN]

\* the loaders that run: the ones whose throttle lets them
Loaded(n, clock) == {c \in ComponentSet : Throttle(n.throttles[c], clock)}

\* the goroutines of refreshInThreads: Load into the copy, then Delay
LoadAll(n, clock, e) ==
    [data |-> [c \in ComponentSet |->
                 IF c \in Loaded(n, clock)
                 THEN [at |-> clock, err |-> e.loadErr[c]]
                 ELSE n.data[c]],
     deploymentResult |-> [at |-> clock, err |-> e.deploymentErr],
     throttles |-> [c \in ComponentSet |->
                      IF c \in Loaded(n, clock)
                      THEN Delay(n.throttles[c], clock)
                      ELSE n.throttles[c]]]

\* loaders[id].Verify(n): the data of the kind holds no error
Verify(n, c) == ~n.data[c].err

\* the throttles of the visible cache after a refresh that did not swap: an
\* object that the copy shares was changed by the refresh
SharedThrottles(i, n) ==
    [c \in ComponentSet |->
        IF CopyIsReceiver(i.throttles[c]) THEN n.throttles[c] ELSE i.throttles[c]]

\* lines 354-412: the loads into the copy n0, Verify, validate and the copy
\* back into the visible cache i
refreshLoaded(i, n0, clock, e) ==
    LET n == LoadAll(n0, clock, e)
        failed == {k \in DOMAIN Components : ~Verify(n, Components[k])}
    IN  IF failed # {}
        THEN [i |-> [i EXCEPT !.throttles = SharedThrottles(i, n)], err |-> "verify"]
        ELSE IF ~e.validateOk
        THEN [i |-> [i EXCEPT !.throttles = SharedThrottles(i, n)], err |-> "validate"]
        ELSE [i |-> [data |-> n.data, deploymentResult |-> n.deploymentResult,
                     throttles |-> n.throttles, last |-> clock, initialised |-> TRUE],
              err |-> ""]

refreshInThreads(i, clock, e) == refreshLoaded(i, copyCore(i), clock, e)

NoRefresh == [calls |-> 0, err |-> "", loaded |-> {}]

InspectorIdle ==
    /\ inspectorState = NewInspector([c \in ComponentSet |-> 0])
    /\ inspectorClock = 1
    /\ inspectorLog = NoRefresh

InitInspector ==
    /\ \E delays \in [ComponentSet -> Delays] : inspectorState = NewInspector(delays)
    /\ inspectorClock = 1
    /\ inspectorLog = NoRefresh

otherThanInspector == <<tickVars, agencyVars, imageVars, singleVars, threadVars, partVars>>

Refresh ==
    /\ inspectorLog.calls < MaxRefreshes
    /\ \E e \in RefreshEnvs :
        \E r \in {refreshInThreads(inspectorState, inspectorClock, e)} :
           /\ inspectorState' = r.i
           /\ inspectorLog' = [calls |-> inspectorLog.calls + 1, err |-> r.err,
                               loaded |-> Loaded(copyCore(inspectorState),
                                                 inspectorClock)]
    /\ UNCHANGED inspectorClock
    /\ UNCHANGED otherThanInspector

\* GetThrottles().Invalidate(c)
InvalidateThrottle ==
    /\ \E c \in ComponentSet :
        /\ Invalidate(inspectorState.throttles[c]) # inspectorState.throttles[c]
        /\ inspectorState' =
              [inspectorState EXCEPT !.throttles[c] = Invalidate(@)]
    /\ UNCHANGED <<inspectorClock, inspectorLog>>
    /\ UNCHANGED otherThanInspector

InspectorAdvance ==
    /\ inspectorClock < MaxClock
    /\ inspectorClock' = inspectorClock + 1
    /\ UNCHANGED <<inspectorState, inspectorLog>>
    /\ UNCHANGED otherThanInspector

NextInspector == Refresh \/ InvalidateThrottle \/ InspectorAdvance

(***************************************************************************)
(* The mutex of the agency cache.  Reload takes c.lock when it starts and  *)
(* gives it back when it returns: it holds the lock while it waits for the *)
(* answers of the agents and while it waits for loadState.  Data and       *)
(* CommitIndex take the same lock for their read.                          *)
(***************************************************************************)
CacheReaders == {"Data", "CommitIndex"}

NoRead == [method |-> "", during |-> FALSE, waited |-> FALSE, atCall |-> <<>>,
           result |-> <<>>]

LockIdle ==
    /\ cacheLock = "free"
    /\ reloadPc = "idle"
    /\ readerPc = "idle"
    /\ readerLog = NoRead

\* a reader that has called and has not returned sees the Reload go on
ReaderWaits ==
    IF readerPc = "called" THEN [readerLog EXCEPT !.waited = TRUE] ELSE readerLog

otherThanLock ==
    <<tickVars, imageVars, inspectorVars, singleVars, swapVars, fanVars, agencyLog, partVars>>

\* line 141: c.lock.Lock()
ReloadLock ==
    /\ reloadPc = "idle"
    /\ cacheLock = "free"
    /\ cacheLock' = "Reload"
    /\ reloadPc' = "refresh"
    /\ UNCHANGED <<readerPc, readerLog, agencyCache, agentSet>>
    /\ UNCHANGED otherThanLock

\* what a.refresh can return, over the answers of the agents and the leader
\* its loop ends with
RefreshOutcomes ==
    UNION {{refresh(r, leader) :
                leader \in (IF LeaderCandidates(r) = {} THEN {""} ELSE LeaderCandidates(r))} :
           r \in getAgencyConfigResults}

\* lines 144-157: the answers of the agents have come; Reload returns on an
\* error or on the cached index, else it goes on to loadState
ReloadRefreshed ==
    /\ reloadPc = "refresh"
    /\ \E f \in RefreshOutcomes :
        /\ agentSet' = [result |-> f.result, health |-> f.health]
        /\ IF f.err # "" \/ SameIndex(agencyCache, Leader(agentSet').commitIndex)
           THEN reloadPc' = "idle" /\ cacheLock' = "free"
           ELSE reloadPc' = "loadState" /\ cacheLock' = cacheLock
    /\ readerLog' = ReaderWaits
    /\ UNCHANGED <<readerPc, agencyCache>>
    /\ UNCHANGED otherThanLock

\* lines 159-167: loadState has returned
ReloadLoaded ==
    /\ reloadPc = "loadState"
    /\ \E loadOk \in BOOLEAN :
        agencyCache' = StoreState(agencyCache, Leader(agentSet), loadOk)
    /\ reloadPc' = "idle"
    /\ cacheLock' = "free"
    /\ readerLog' = ReaderWaits
    /\ UNCHANGED <<readerPc, agentSet>>
    /\ UNCHANGED otherThanLock

\* a goroutine calls Data() or CommitIndex()
ReaderCall ==
    /\ readerPc = "idle"
    /\ \E method \in CacheReaders :
        readerLog' = [method |-> method, during |-> reloadPc # "idle", waited |-> FALSE,
                      atCall |-> <<agencyCache>>, result |-> <<>>]
    /\ readerPc' = "called"
    /\ UNCHANGED <<cacheLock, reloadPc, agencyCache, agentSet>>
    /\ UNCHANGED otherThanLock

\* lines 126-138: the reader gets the lock, reads and gives the lock back
ReaderReturn ==
    /\ readerPc = "called"
    /\ cacheLock = "free"
    /\ readerLog' = [readerLog EXCEPT !.result = <<agencyCache>>]
    /\ readerPc' = "idle"
    /\ UNCHANGED <<cacheLock, reloadPc, agencyCache, agentSet>>
    /\ UNCHANGED otherThanLock

NextLock ==
    \/ ReloadLock
    \/ ReloadRefreshed
    \/ ReloadLoaded
    \/ ReaderCall
    \/ ReaderReturn

(***************************************************************************)
(* The resource cache while a Refresh copies its result back.  Refresh     *)
(* holds i.lock; when the copy n is loaded and verified it calls Copy of   *)
(* one loader after the other, each of which puts the data of its kind     *)
(* into the visible cache, and then sets deploymentResult, throttles, last *)
(* and initialised.  The accessors (Pod(), Secret(), ...) return the field *)
(* of the visible cache and take no lock.  The data of a kind is named by  *)
(* the number of the Refresh that loaded it.                               *)
(***************************************************************************)
NoSwap ==
    [visible |-> [c \in ComponentSet |-> 0], building |-> [c \in ComponentSet |-> 0],
     pc |-> "idle", next |-> 1, refreshes |-> 0, initialised |-> FALSE]

NoReads == [seen |-> <<>>, inCopyOf |-> <<>>]

SwapIdle ==
    /\ swapCache = NoSwap
    /\ swapReader = NoReads

otherThanSwap ==
    <<tickVars, agencyVars, imageVars, inspectorVars, singleVars, lockVars, fanVars, partVars>>

\* lines 327-399: lock, copyCore, the loads, Verify and validate; a Refresh
\* that fails returns here
SwapLoad ==
    /\ swapCache.pc = "idle"
    /\ swapCache.refreshes < MaxRefreshes
    /\ \E ok \in BOOLEAN :
        swapCache' =
            IF ok
            THEN [swapCache EXCEPT
                    !.refreshes = @ + 1,
                    !.building = [c \in ComponentSet |-> swapCache.refreshes + 1],
                    !.pc = "copy", !.next = 1]
            ELSE [swapCache EXCEPT !.refreshes = @ + 1]
    /\ UNCHANGED swapReader
    /\ UNCHANGED otherThanSwap

\* lines 401-403: loaders[id].Copy(n, i, true), one loader at a time
SwapCopy ==
    /\ swapCache.pc = "copy"
    /\ swapCache.next <= Len(Components)
    /\ swapCache' =
          [swapCache EXCEPT
             !.visible[Components[swapCache.next]] =
                  swapCache.building[Components[swapCache.next]],
             !.next = @ + 1]
    /\ UNCHANGED swapReader
    /\ UNCHANGED otherThanSwap

\* lines 405-412: the rest of the swap and the return
SwapReturn ==
    /\ swapCache.pc = "copy"
    /\ swapCache.next > Len(Components)
    /\ swapCache' = [swapCache EXCEPT !.pc = "idle", !.initialised = TRUE]
    /\ UNCHANGED swapReader
    /\ UNCHANGED otherThanSwap

\* a reader calls the accessor of the next kind: lines 263-321, no lock.  The
\* reader reads every kind once, in the order of Components, and then starts
\* again.  With the data it gets the log keeps the Refresh that was copying
\* back at the time of the read (0: none was).
AccessorRead ==
    /\ LET k == IF Len(swapReader.seen) = Len(Components) THEN 1
                ELSE Len(swapReader.seen) + 1
           before == IF k = 1 THEN NoReads ELSE swapReader
       IN swapReader' =
            [seen |-> Append(before.seen, swapCache.visible[Components[k]]),
             inCopyOf |-> Append(before.inCopyOf,
                                 IF swapCache.pc = "copy" THEN swapCache.refreshes ELSE 0)]
    /\ UNCHANGED swapCache
    /\ UNCHANGED otherThanSwap

NextSwap ==
    \/ SwapLoad
    \/ SwapCopy
    \/ SwapReturn
    \/ AccessorRead

(***************************************************************************)
(* The fan-outs.  refreshInThreads starts one goroutine per loader: it     *)
(* asks the throttle of the loader, waits for a place of the worker pool,  *)
(* calls Load, which fills the field of its kind in the copy n, and gives  *)
(* the place back.  getAgencyConfigResults and Connections.Filter start    *)
(* one goroutine per connection, and every goroutine writes its result     *)
(* into one map that all of them share, without a lock: two writes of the  *)
(* map at the same time are a data race, after which the entry is there,   *)
(* or is not, or the runtime ends the process (concurrent map writes).     *)
(* All three wait for their goroutines (WaitGroup) before they go on.      *)
(***************************************************************************)
FanKinds == {"refreshInThreads", "getAgencyConfigResults", "Filter"}

MapFanKinds == {"getAgencyConfigResults", "Filter"}

FanInputs == 1..MaxFanInputs

\* the fan-outs that can run: a refresh with its number of threads and the
\* loaders its throttles allow, or one of the two fan-outs over connections
FanChoices ==
    [kind : {"refreshInThreads"}, threads : 1..MaxThreads, allowed : SUBSET FanInputs]
        \cup [kind : MapFanKinds, threads : {1}, allowed : {FanInputs}]

\* what the shared result holds for an input before its worker has written:
\* n holds the data copyCore took over, the map of getAgencyConfigResults
\* holds a nil entry, the map of Filter holds nothing
FanEmpty(kind) ==
    CASE kind = "refreshInThreads" -> "kept"
      [] kind = "getAgencyConfigResults" -> "nil"
      [] kind = "Filter" -> "none"

NoFan == [kind |-> "none", threads |-> 1, allowed |-> {}]

FanIdle ==
    /\ fanKind = NoFan
    /\ fanWorkers = [i \in FanInputs |-> "done"]
    /\ fanTokens = 0
    /\ fanJoined = [i \in FanInputs |-> "none"]
    /\ fanState = "idle"

\* util.ParallelThread(threads): the places the pool starts with
ParallelThread(threads) == threads

\* the goroutines are started: m.Add(len(loaders)) / wg.Add(1), go func
InitFan ==
    /\ fanKind \in FanChoices
    /\ fanWorkers = [i \in FanInputs |-> "spawned"]
    /\ fanTokens = ParallelThread(fanKind.threads)
    /\ fanJoined = [i \in FanInputs |-> FanEmpty(fanKind.kind)]
    /\ fanState = "running"

otherThanFan ==
    <<tickVars, agencyVars, imageVars, inspectorVars, singleVars, lockVars, swapVars, partVars>>

\* a pool that always has a place
TokenFreeAlways(tokens) == TRUE

\* <-p: a place of the pool is free
TokenFree(tokens) == tokens > 0

\* m.Wait() / wg.Wait(): every goroutine has called Done
AllDone(workers) == \A i \in FanInputs : workers[i] = "done"

Loading(workers) == {i \in FanInputs : workers[i] = "loading"}

Writing(workers) == {i \in FanInputs : workers[i] \in {"writing", "racing"}}

\* lines 362-369: the throttle of the loader; a loader that is not to be
\* loaded returns, which calls m.Done()
FanThrottle ==
    /\ fanState = "running"
    /\ fanKind.kind = "refreshInThreads"
    /\ \E i \in FanInputs :
        /\ fanWorkers[i] = "spawned"
        /\ fanWorkers' = [fanWorkers EXCEPT
                            ![i] = IF i \in fanKind.allowed THEN "waiting" ELSE "done"]
    /\ UNCHANGED <<fanKind, fanTokens, fanJoined, fanState>>
    /\ UNCHANGED otherThanFan

\* line 378: <-p
FanAcquire ==
    /\ fanState = "running"
    /\ \E i \in FanInputs :
        /\ fanWorkers[i] = "waiting"
        /\ TokenFree(fanTokens)
        /\ fanWorkers' = [fanWorkers EXCEPT ![i] = "loading"]
    /\ fanTokens' = fanTokens - 1
    /\ UNCHANGED <<fanKind, fanJoined, fanState>>
    /\ UNCHANGED otherThanFan

\* lines 371-383: Load returns; the deferred functions give the place back,
\* call Delay and m.Done()
FanLoaded ==
    /\ fanState = "running"
    /\ \E i \in FanInputs :
        /\ fanWorkers[i] = "loading"
        /\ fanWorkers' = [fanWorkers EXCEPT ![i] = "done"]
        /\ fanJoined' = [fanJoined EXCEPT ![i] = "loaded"]
    /\ fanTokens' = fanTokens + 1
    /\ UNCHANGED <<fanKind, fanState>>
    /\ UNCHANGED otherThanFan

\* the goroutine of a connection has its result and starts to write the map;
\* a write that starts while another goroutine writes races with it
FanWriteStart ==
    /\ fanState = "running"
    /\ fanKind.kind \in MapFanKinds
    /\ \E i \in FanInputs :
        /\ fanWorkers[i] = "spawned"
        /\ fanWorkers' =
              IF Writing(fanWorkers) = {}
              THEN [fanWorkers EXCEPT ![i] = "writing"]
              ELSE [j \in FanInputs |->
                      IF j = i \/ j \in Writing(fanWorkers) THEN "racing"
                      ELSE fanWorkers[j]]
    /\ UNCHANGED <<fanKind, fanTokens, fanJoined, fanState>>
    /\ UNCHANGED otherThanFan

\* the write of the map ends, and the goroutine calls wg.Done()
FanWriteEnd ==
    /\ fanState = "running"
    /\ \E i \in FanInputs :
        /\ fanWorkers[i] \in {"writing", "racing"}
        /\ \E outcome \in (IF fanWorkers[i] = "racing" THEN {"set", "lost", "crash"}
                           ELSE {"set"}) :
            /\ fanState' = IF outcome = "crash" THEN "crashed" ELSE fanState
            /\ fanJoined' = IF outcome = "set" THEN [fanJoined EXCEPT ![i] = "set"]
                            ELSE fanJoined
        /\ fanWorkers' = [fanWorkers EXCEPT ![i] = "done"]
    /\ UNCHANGED <<fanKind, fanTokens>>
    /\ UNCHANGED otherThanFan

\* Wait() returns and the caller reads the result
FanJoin ==
    /\ fanState = "running"
    /\ AllDone(fanWorkers)
    /\ fanState' = "joined"
    /\ UNCHANGED <<fanKind, fanWorkers, fanTokens, fanJoined>>
    /\ UNCHANGED otherThanFan

NextFan ==
    \/ FanThrottle
    \/ FanAcquire
    \/ FanLoaded
    \/ FanWriteStart
    \/ FanWriteEnd
    \/ FanJoin

ThreadsIdle == LockIdle /\ SwapIdle /\ FanIdle

(***************************************************************************)
(* CheckProgress of the RuntimeContainerImageUpdate action.  The pod of    *)
(* the member has the container "server"; the action names a container    *)
(* and the image it is to run.  The status of the container has the image *)
(* the container runs, its state, and the time its last termination       *)
(* finished, if there was one.                                            *)
(***************************************************************************)
ContainerStates == {"Terminated", "Waiting", "Running", "Unknown"}

RestartPolicies == {"Always", "Never"}

ProgressTimes == 0..MaxProgressTime

\* the status of the container: image, state and LastTerminationState
ContainerStatuses ==
    [image : Images, state : ContainerStates,
     lastTermination : {<<>>} \cup {<<t>> : t \in ProgressTimes}]

ProgressPods ==
    [image : Images,                          \* cspec.Image
     status : {<<>>} \cup {<<c>> : c \in ContainerStatuses},
     restartPolicy : RestartPolicies]

ProgressEnvs ==
    [memberPresent : BOOLEAN,          \* GetMemberStatusByID finds the member
     clusterCache : BOOLEAN,           \* ACS().ClusterCache(m.ClusterID) is there
     params : ParamChoices,
     pod : {<<>>} \cup {<<q>> : q \in ProgressPods},
     now : ProgressTimes]

\* k8sutil.GetContainerByName / GetContainerStatusByName: the pod has the
\* one container
GetContainerByName(pod, name) == name = ContainerNames[1]

ProgressResult(ready, abort, err) == [ready |-> ready, abort |-> abort, err |-> err]

\* lines 267-268: the last termination finished before now - 20s
\* (allowedRestartPeriod, in abstract units)
PastRestartPeriod(lastTermination, t) == lastTermination[1] < t - allowedRestartPeriod

\* actionRuntimeContainerImageUpdate.CheckProgress
CheckProgress(env) ==
    LET d == getContainerDetails(env) IN
    IF ~env.memberPresent THEN ProgressResult(TRUE, FALSE, "")
    ELSE IF ~env.clusterCache THEN ProgressResult(FALSE, FALSE, "")
    ELSE IF env.pod = <<>> THEN ProgressResult(TRUE, FALSE, "")
    ELSE IF ~d.ok THEN ProgressResult(TRUE, FALSE, "")
    ELSE IF ~GetContainerByName(env.pod[1], d.name) THEN ProgressResult(TRUE, FALSE, "")
    ELSE IF env.pod[1].status = <<>> THEN ProgressResult(TRUE, FALSE, "")
    ELSE LET cspec == env.pod[1]
             cstatus == env.pod[1].status[1]
         IN IF cspec.image # d.image THEN ProgressResult(TRUE, FALSE, "")
            ELSE IF cstatus.state = "Terminated"
            THEN IF cspec.image # cstatus.image THEN ProgressResult(FALSE, FALSE, "")
                 ELSE ProgressResult(TRUE, FALSE, "failed during image replacement")
            ELSE IF cstatus.state = "Waiting"
            THEN IF /\ cspec.restartPolicy = "Always"
                    /\ cstatus.lastTermination # <<>>
                    /\ PastRestartPeriod(cstatus.lastTermination, env.now)
                 THEN ProgressResult(TRUE, FALSE,
                                     "continuously failing during image replacement")
                 ELSE ProgressResult(FALSE, FALSE, "")
            ELSE IF cstatus.state = "Running"
            THEN IF cspec.image # cstatus.image THEN ProgressResult(FALSE, FALSE, "")
                 ELSE ProgressResult(TRUE, FALSE, "")
            ELSE ProgressResult(FALSE, FALSE, "")

\* the two cases in which the container will not come up with the image:
\* it is in a crash loop past the restart period, or it has terminated with
\* the image of the action
CrashLooping(env) ==
    /\ env.memberPresent /\ env.clusterCache /\ env.pod # <<>>
    /\ getContainerDetails(env).ok
    /\ GetContainerByName(env.pod[1], getContainerDetails(env).name)
    /\ env.pod[1].status # <<>>
    /\ env.pod[1].image = getContainerDetails(env).image
    /\ env.pod[1].status[1].state = "Waiting"
    /\ env.pod[1].restartPolicy = "Always"
    /\ env.pod[1].status[1].lastTermination # <<>>
    /\ env.pod[1].status[1].lastTermination[1] < env.now - allowedRestartPeriod

TerminatedOnTarget(env) ==
    /\ env.memberPresent /\ env.clusterCache /\ env.pod # <<>>
    /\ getContainerDetails(env).ok
    /\ GetContainerByName(env.pod[1], getContainerDetails(env).name)
    /\ env.pod[1].status # <<>>
    /\ env.pod[1].image = getContainerDetails(env).image
    /\ env.pod[1].status[1].state = "Terminated"
    /\ env.pod[1].status[1].image = env.pod[1].image

NoProgress == [calls |-> 0, result |-> <<>>, crashLooping |-> FALSE, terminated |-> FALSE]

IdleProgressEnv ==
    [memberPresent |-> FALSE, clusterCache |-> FALSE, params |-> <<>>, pod |-> <<>>,
     now |-> 0]

ProgressIdle ==
    /\ progressEnv = IdleProgressEnv
    /\ progressLog = NoProgress

\* no termination of the container lies in the future
TerminationsPast(env) ==
    (env.pod # <<>> /\ env.pod[1].status # <<>>
        /\ env.pod[1].status[1].lastTermination # <<>>)
      => env.pod[1].status[1].lastTermination[1] <= env.now

InitProgress ==
    /\ progressEnv \in ProgressEnvs
    /\ progressEnv.now = 0
    /\ TerminationsPast(progressEnv)
    /\ progressLog = NoProgress

otherThanProgress ==
    <<tickVars, agencyVars, imageVars, inspectorVars, singleVars, threadVars,
      postVars, connVars, authVars, lookupVars, backupVars, replVars, refreshVars, electVars>>

\* the executor calls CheckProgress of the action; the log keeps the result
\* and which of the two cases the call was made in
CheckProgressCall ==
    /\ progressLog.calls < MaxChecks
    /\ progressLog' = [calls |-> progressLog.calls + 1,
                       result |-> <<CheckProgress(progressEnv)>>,
                       crashLooping |-> CrashLooping(progressEnv),
                       terminated |-> TerminatedOnTarget(progressEnv)]
    /\ UNCHANGED progressEnv
    /\ UNCHANGED otherThanProgress

\* the kubelet: the container terminates, is about to be started again
\* (its termination becomes the last one), or runs with the image of the pod
KubeletStep(pod, t) ==
    LET c == pod.status[1] IN
    CASE c.state = "Running" -> [c EXCEPT !.state = "Terminated"]
      [] c.state = "Terminated" ->
            [c EXCEPT !.state = "Waiting", !.lastTermination = <<t>>]
      [] c.state = "Waiting" -> [c EXCEPT !.state = "Running", !.image = pod.image]
      [] OTHER -> [c EXCEPT !.state = "Waiting"]

ContainerChange ==
    /\ progressEnv.pod # <<>>
    /\ progressEnv.pod[1].status # <<>>
    /\ progressEnv' =
          [progressEnv EXCEPT
              !.pod[1].status = <<KubeletStep(progressEnv.pod[1], progressEnv.now)>>]
    /\ UNCHANGED progressLog
    /\ UNCHANGED otherThanProgress

ProgressAdvance ==
    /\ progressEnv.now < MaxProgressTime
    /\ progressEnv' = [progressEnv EXCEPT !.now = @ + 1]
    /\ UNCHANGED progressLog
    /\ UNCHANGED otherThanProgress

NextProgress ==
    \/ CheckProgressCall
    \/ ContainerChange
    \/ ProgressAdvance

(***************************************************************************)
(* Post of the RuntimeContainerImageUpdate action.  The ArangoMember has   *)
(* a pod template in its spec and one in its status; Post puts the image   *)
(* of the action into the template of the status.                          *)
(***************************************************************************)
\* a pod template: containers in the order of the names, the server with
\* the image
Template(names, image) ==
    [k \in 1..Len(names) |->
        [name |-> names[k],
         image |-> IF names[k] = ContainerNames[1] THEN image ELSE "exporter:1"]]

Templates == {Template(names, i) : names \in TemplateChoices, i \in Images}

PostEnvs ==
    [memberPresent : BOOLEAN,          \* GetMemberStatusByID finds the member
     params : ParamChoices,
     arangoMember : BOOLEAN,           \* the ArangoMember is in the cache
     specTemplate : {<<>>} \cup {<<t>> : t \in Templates},
     statusTemplate : {<<>>} \cup {<<t>> : t \in Templates}]

\* the first container of the spec template with the name; 0 when none
FirstNamed(spec, name) ==
    IF \E id \in 1..Len(spec) : spec[id].name = name
    THEN CHOOSE id \in 1..Len(spec) :
            /\ spec[id].name = name
            /\ \A j \in 1..(id - 1) : spec[j].name # name
    ELSE 0

\* a Post that takes every image of the spec for the image of the action
SpecImageDiffersNever(spec, id, image) == FALSE

\* line 95: the spec template does not have the image of the action
SpecImageDiffers(spec, id, image) == spec[id].image # image

Unchanged(s) == [changed |-> FALSE, status |-> s]

\* lines 76-107: the function Post hands to UpdateStatus: it returns whether
\* it has changed the status, and the status
PostUpdate(env, name, image) ==
    IF env.specTemplate = <<>> \/ env.statusTemplate = <<>>
    THEN Unchanged(env.statusTemplate)
    ELSE LET spec == env.specTemplate[1]
             s == env.statusTemplate[1]
             id == FirstNamed(spec, name)
         IN IF Len(spec) # Len(s) THEN Unchanged(env.statusTemplate)
            ELSE IF id = 0 THEN Unchanged(env.statusTemplate)
            ELSE IF s[id].name # name THEN Unchanged(env.statusTemplate)
            ELSE IF SpecImageDiffers(spec, id, image) THEN Unchanged(env.statusTemplate)
            ELSE IF s[id].image # image
            THEN [changed |-> TRUE, status |-> <<[s EXCEPT ![id].image = image]>>]
            ELSE Unchanged(env.statusTemplate)

PostResult(env, err, wrote) == [env |-> env, err |-> err, wrote |-> wrote]

\* UpdateStatus: the status is sent to the API server when the function has
\* changed it; updateOk tells whether the API server takes it
UpdateStatus(env, u, updateOk) ==
    IF ~u.changed THEN PostResult(env, "", FALSE)
    ELSE IF updateOk THEN PostResult([env EXCEPT !.statusTemplate = u.status], "", TRUE)
    ELSE PostResult(env, "UpdateStatus", FALSE)

\* actionRuntimeContainerImageUpdate.Post
Post(env, updateOk) ==
    LET d == getContainerDetails(env) IN
    IF ~env.memberPresent THEN PostResult(env, "", FALSE)
    ELSE IF ~d.ok THEN PostResult(env, "", FALSE)
    ELSE IF ~env.arangoMember THEN PostResult(env, "ArangoMember not found", FALSE)
    ELSE UpdateStatus(env, PostUpdate(env, d.name, d.image), updateOk)

NoPost == [calls |-> 0, err |-> "", wrote |-> FALSE, changed |-> FALSE, before |-> FALSE]

IdlePostEnv ==
    [memberPresent |-> FALSE, params |-> <<>>, arangoMember |-> FALSE,
     specTemplate |-> <<>>, statusTemplate |-> <<>>]

PostIdle ==
    /\ postEnv = IdlePostEnv
    /\ postLog = NoPost

InitPost ==
    /\ postEnv \in PostEnvs
    /\ postLog = NoPost

otherThanPost ==
    <<tickVars, agencyVars, imageVars, inspectorVars, singleVars, threadVars,
      progressVars, connVars, authVars, lookupVars, backupVars, replVars, refreshVars, electVars>>

\* the executor calls Post of the action; changed: the function handed to
\* UpdateStatus has changed the status; before: the Post before this one
\* wrote the status
PostCall ==
    /\ postLog.calls < MaxPosts
    /\ \E updateOk \in BOOLEAN :
        \E x \in {Post(postEnv, updateOk)} :
            /\ postEnv' = x.env
            /\ postLog' = [calls |-> postLog.calls + 1, err |-> x.err, wrote |-> x.wrote,
                           changed |-> x.wrote \/ x.err = "UpdateStatus",
                           before |-> postLog.wrote]
    /\ UNCHANGED otherThanPost

\* the operator gives the spec template of the ArangoMember another image;
\* the Posts after it are Posts of another state
SpecTemplateChange ==
    /\ postEnv.specTemplate # <<>>
    /\ \E t \in Templates :
        /\ <<t>> # postEnv.specTemplate
        /\ Len(t) = Len(postEnv.specTemplate[1])
        /\ \A k \in 1..Len(t) : t[k].name = postEnv.specTemplate[1][k].name
        /\ postEnv' = [postEnv EXCEPT !.specTemplate = <<t>>]
    /\ postLog' = NoPost
    /\ UNCHANGED otherThanPost

NextPost ==
    \/ PostCall
    \/ SpecTemplateChange

(***************************************************************************)
(* The client cache (package client).  The cache keeps its factory and the *)
(* deployment it asks for members and endpoints; it keeps no connection.   *)
(* GetConnection holds the mutex of the cache for the whole call, so calls *)
(* do not overlap.  A connection is known by the number the factory made   *)
(* it with: two connections are the same object when the numbers agree.    *)
(***************************************************************************)
ConnGroups == {"agent", "dbserver"}

ConnIds == {"id-1", "id-2"}

ConnKeys == ConnGroups \X ConnIds

\* what a call finds: GenerateMemberEndpoint and http.NewConnection succeed or not
ConnEnvs == [endpoint : BOOLEAN, newConnection : BOOLEAN]

ConnResult(conn, err, made) == [conn |-> conn, err |-> err, made |-> made]

\* factory.Connection: a new connection of the http driver, wrapped, at every call
FactoryConnection(made, e) ==
    IF ~e.newConnection THEN ConnResult(<<>>, "error", made)
    ELSE ConnResult(<<made + 1>>, "", made + 1)

\* cache.GetConnection
GetConnection(made, key, e) ==
    IF ~e.endpoint THEN ConnResult(<<>>, "error", made)
    ELSE FactoryConnection(made, e)

NoConnections == [made |-> 0]

NoConnLog ==
    [calls |-> 0, key |-> <<>>, result |-> <<>>, err |-> "",
     factory |-> [k \in ConnKeys |-> 0], returned |-> [k \in ConnKeys |-> {}]]

ConnIdle == connCache = NoConnections /\ connLog = NoConnLog

InitConn == ConnIdle

GetConnectionCall ==
    /\ connLog.calls < MaxConnCalls
    /\ \E key \in ConnKeys : \E e \in ConnEnvs :
        \E r \in {GetConnection(connCache.made, key, e)} :
           /\ connCache' = [made |-> r.made]
           /\ connLog' = [calls |-> connLog.calls + 1, key |-> key, result |-> r.conn,
                          err |-> r.err,
                          factory |-> [connLog.factory EXCEPT
                                          ![key] = @ + IF e.endpoint THEN 1 ELSE 0],
                          returned |-> [connLog.returned EXCEPT
                                           ![key] = @ \cup {r.conn[k] : k \in 1..Len(r.conn)}]]
    /\ UNCHANGED <<tickVars, agencyVars, imageVars, inspectorVars, singleVars, threadVars,
                   progressVars, postVars, authVars, lookupVars, backupVars, replVars, refreshVars, electVars>>

NextConn == GetConnectionCall

(***************************************************************************)
(* The authenticating connection (package conn).  It keeps the connection  *)
(* it was made with (base) and the connection it sends on (conn); a        *)
(* connection is known by a number, the base is 0 and every successful     *)
(* SetAuthentication of the base gives the next one.  Do is called by one  *)
(* caller at a time.  A response is its status code; the server, the auth  *)
(* function and the driver are the inputs of a call.                       *)
(***************************************************************************)
StatusUnauthorized == 401

Responses == {<<200>>, <<StatusUnauthorized>>, <<404>>, <<500>>}

\* <<>>: the request failed with an error
SendOutcomes == Responses \cup {<<>>}

AuthOutcomes == {"ok", "auth", "set"}

AuthEnvBase == [first |-> <<200>>, auth |-> "ok", second |-> <<200>>]

AuthEnvs ==
    {[AuthEnvBase EXCEPT !.first = f] : f \in SendOutcomes \ {<<StatusUnauthorized>>}}
    \cup {[AuthEnvBase EXCEPT !.first = <<StatusUnauthorized>>, !.auth = a] :
             a \in AuthOutcomes \ {"ok"}}
    \cup {[AuthEnvBase EXCEPT !.first = <<StatusUnauthorized>>, !.second = r] :
             r \in SendOutcomes}

\* WrapAuthentication
WrapAuthentication(conn) == [base |-> conn, conn |-> conn, made |-> conn]

\* authenticate.Reauthenticate: conn is replaced only when both calls succeed
Reauthenticate(a, e) ==
    IF e.auth = "auth" THEN [a |-> a, err |-> "Unable to refresh auth"]
    ELSE IF e.auth = "set" THEN [a |-> a, err |-> "Unable to set auth"]
    ELSE [a |-> [a EXCEPT !.conn = a.made + 1, !.made = a.made + 1], err |-> ""]

DoResult(a, resp, err, sentOn, reauths) ==
    [a |-> a, resp |-> resp, err |-> err, sentOn |-> sentOn, reauths |-> reauths]

\* a Do that sends again also after a failed Reauthenticate
DoResendAlways(a, e) ==
    IF e.first = <<>> THEN DoResult(a, <<>>, "error", <<a.conn>>, 0)
    ELSE IF e.first # <<StatusUnauthorized>> THEN DoResult(a, e.first, "", <<a.conn>>, 0)
    ELSE LET r == Reauthenticate(a, e) IN
         DoResult(r.a, e.second, IF e.second = <<>> THEN "error" ELSE "",
                  <<a.conn, r.a.conn>>, 1)

\* authenticate.Do
Do(a, e) ==
    IF e.first = <<>> THEN DoResult(a, <<>>, "error", <<a.conn>>, 0)
    ELSE IF e.first # <<StatusUnauthorized>> THEN DoResult(a, e.first, "", <<a.conn>>, 0)
    ELSE LET r == Reauthenticate(a, e) IN
         IF r.err # "" THEN DoResult(r.a, <<>>, r.err, <<a.conn>>, 1)
         ELSE DoResult(r.a, e.second, IF e.second = <<>> THEN "error" ELSE "",
                       <<a.conn, r.a.conn>>, 1)

NoAuthLog ==
    [calls |-> 0, env |-> AuthEnvBase, before |-> 0, resp |-> <<>>, err |-> "",
     sentOn |-> <<>>, reauths |-> 0]

AuthIdle == authConn = WrapAuthentication(0) /\ authLog = NoAuthLog

InitAuth == AuthIdle

DoCall ==
    /\ authLog.calls < MaxDoCalls
    /\ \E e \in AuthEnvs : \E r \in {Do(authConn, e)} :
           /\ authConn' = r.a
           /\ authLog' = [calls |-> authLog.calls + 1, env |-> e, before |-> authConn.conn,
                          resp |-> r.resp, err |-> r.err, sentOn |-> r.sentOn,
                          reauths |-> r.reauths]
    /\ UNCHANGED <<tickVars, agencyVars, imageVars, inspectorVars, singleVars, threadVars,
                   progressVars, postVars, connVars, lookupVars, backupVars, replVars, refreshVars, electVars>>

NextAuth == DoCall

(***************************************************************************)
(* GetActionTimeout as a function of its own: it is asked for the timeout  *)
(* of a type under a spec.  The types are the registered ones, a type of   *)
(* the API that no init() registers, and the name 'default'; the spec      *)
(* overrides any of three of them or none.                                 *)
(***************************************************************************)
LookupTypes == RegisteredTypes \cup {"AddMember", "default"}

LookupTimeouts ==
    UNION {[K -> {1, 3}] :
              K \in SUBSET {"RuntimeContainerImageUpdate", "AddMember", "default"}}

NoLookup == [type |-> "", result |-> <<>>]

LookupIdle == timeoutLog = NoLookup

InitLookup ==
    /\ \E t \in LookupTimeouts : TickStart([InitialSpec EXCEPT !.timeouts = t])
    /\ timeoutLog = NoLookup

GetActionTimeoutCall ==
    /\ \E t \in LookupTypes :
           timeoutLog' = [type |-> t, result |-> <<GetActionTimeout(crSpec, t)>>]
    /\ UNCHANGED <<tickVars, agencyVars, imageVars, inspectorVars, singleVars, threadVars,
                   progressVars, postVars, connVars, authVars, backupVars, replVars, refreshVars, electVars>>

NextLookup == GetActionTimeoutCall

(***************************************************************************)
(* The backup handler on an ArangoBackup in state Create, as its tests set *)
(* it up: a deployment and a backup object exist, the backup client either *)
(* creates a backup or returns the error it was made with.  An error is    *)
(* temporary or fatal and carries a text.                                  *)
(***************************************************************************)
BackupErrorTexts == {"error", "timeout"}

CreateErrors ==
    {[kind |-> "none", text |-> ""]}
    \cup [kind : {"fatal", "temporary"}, text : BackupErrorTexts]

BackupOptions == [allowInconsistent : BOOLEAN, upload : BOOLEAN]

NewBackupStatus(state) ==
    [state |-> state, message |-> <<>>, available |-> FALSE, backup |-> <<>>]

\* newObjectSet(state)
newObjectSet(state, options) == [spec |-> options, status |-> NewBackupStatus(state)]

\* createStateMessage(from, to, message)
createStateMessage(from, to, message) == <<from, to, message>>

\* the mock client: Create makes the next backup or returns its createError
MockCreate(mock, e) ==
    IF e.kind # "none" THEN [mock |-> mock, id |-> <<>>, err |-> e]
    ELSE [mock |-> [mock EXCEPT !.ids = @ \cup {Cardinality(@) + 1}],
          id |-> <<Cardinality(mock.ids) + 1>>, err |-> e]

\* a handler that takes every error of Create for a fatal one
stateCreateHandlerAllFatal(obj, mock, e) ==
    LET r == MockCreate(mock, e) IN
    IF r.err.kind # "none"
    THEN [status |-> [obj.status EXCEPT
                         !.state = "Failed",
                         !.message = createStateMessage("Create", "Failed", r.err.text),
                         !.available = FALSE],
          mock |-> r.mock, err |-> ""]
    ELSE [status |-> [obj.status EXCEPT
                         !.state = "Ready", !.message = <<>>, !.available = TRUE,
                         !.backup = <<[id |-> r.id[1],
                                       inconsistent |-> obj.spec.allowInconsistent]>>],
          mock |-> r.mock, err |-> ""]

\* a handler that returns every error of Create and writes nothing
stateCreateHandlerAllTemporary(obj, mock, e) ==
    LET r == MockCreate(mock, e) IN
    IF r.err.kind # "none"
    THEN [status |-> obj.status, mock |-> r.mock, err |-> r.err.text]
    ELSE [status |-> [obj.status EXCEPT
                         !.state = "Ready", !.message = <<>>, !.available = TRUE,
                         !.backup = <<[id |-> r.id[1],
                                       inconsistent |-> obj.spec.allowInconsistent]>>],
          mock |-> r.mock, err |-> ""]

\* Handle of an object in state Create: a temporary error is returned and
\* nothing is written, a fatal error fails the object, a backup makes it ready
stateCreateHandler(obj, mock, e) ==
    LET r == MockCreate(mock, e) IN
    IF r.err.kind = "temporary"
    THEN [status |-> obj.status, mock |-> r.mock, err |-> r.err.text]
    ELSE IF r.err.kind = "fatal"
    THEN [status |-> [obj.status EXCEPT
                         !.state = "Failed",
                         !.message = createStateMessage("Create", "Failed", r.err.text),
                         !.available = FALSE],
          mock |-> r.mock, err |-> ""]
    ELSE [status |-> [obj.status EXCEPT
                         !.state = "Ready", !.message = <<>>, !.available = TRUE,
                         !.backup = <<[id |-> r.id[1],
                                       inconsistent |-> obj.spec.allowInconsistent]>>],
          mock |-> r.mock, err |-> ""]

NoBackupLog ==
    [calls |-> 0, err |-> "", createError |-> [kind |-> "none", text |-> ""],
     before |-> NewBackupStatus("Create"), created |-> 0]

IdleBackupObj == newObjectSet("Create", [allowInconsistent |-> FALSE, upload |-> FALSE])

BackupIdle ==
    backupObj = IdleBackupObj /\ backupMock = [ids |-> {}] /\ backupLog = NoBackupLog

InitBackup ==
    /\ \E o \in BackupOptions : backupObj = newObjectSet("Create", o)
    /\ backupMock = [ids |-> {}]
    /\ backupLog = NoBackupLog

\* handler.Handle(newItemFromBackup(operation.Update, obj))
HandleCall ==
    /\ backupLog.calls < MaxHandles
    /\ backupObj.status.state = "Create"
    /\ \E e \in CreateErrors : \E r \in {stateCreateHandler(backupObj, backupMock, e)} :
           /\ backupObj' = [backupObj EXCEPT !.status = r.status]
           /\ backupMock' = r.mock
           /\ backupLog' = [calls |-> backupLog.calls + 1, err |-> r.err, createError |-> e,
                            before |-> backupObj.status,
                            created |-> Cardinality(r.mock.ids)
                                            - Cardinality(backupMock.ids)]
    /\ UNCHANGED <<tickVars, agencyVars, imageVars, inspectorVars, singleVars, threadVars,
                   progressVars, postVars, connVars, authVars, lookupVars, replVars, refreshVars, electVars>>

NextBackup == HandleCall

(***************************************************************************)
(* The stop-sync finalizer of a deployment replication that is marked for  *)
(* deletion.  The source and the destination deployment are present, being *)
(* deleted, gone, or not named by the spec; the sync master of the         *)
(* destination refuses the cancel request until it accepts it.  A fault is *)
(* an error of the API server or of the client set-up; only MaxFaults of   *)
(* them happen.                                                            *)
(***************************************************************************)
DeploymentStates == {"present", "deleting", "gone", "unnamed"}

\* what a call finds: errors of the two Get calls, of createSyncMasterClient and
\* of the removal of the finalizer, and how an accepting master answers
ReplEnvBase ==
    [sourceGet |-> TRUE, destinationGet |-> TRUE, client |-> TRUE, remove |-> TRUE,
     precondition |-> FALSE]

ReplEnvs(faults) ==
    {ReplEnvBase, [ReplEnvBase EXCEPT !.precondition = TRUE]}
    \cup (IF faults = 0 THEN {}
          ELSE {[ReplEnvBase EXCEPT !.sourceGet = FALSE],
                [ReplEnvBase EXCEPT !.destinationGet = FALSE],
                [ReplEnvBase EXCEPT !.client = FALSE],
                [ReplEnvBase EXCEPT !.remove = FALSE]})

IsFault(e) == ~(e.sourceGet /\ e.destinationGet /\ e.client /\ e.remove)

StopSyncResult(failures, err, force) ==
    [cancelFailures |-> failures, err |-> err, force |-> force]

\* line 162
Abort(failures) == failures > maxCancelFailures

\* CancelSynchronization of the sync master of the destination
CancelSynchronization(world, e) ==
    IF ~world.accepting THEN "error"
    ELSE IF e.precondition THEN "precondition failed"
    ELSE ""

\* inspectFinalizerDeplReplStopSync: err = "" when the finalizer can be removed
inspectFinalizerDeplReplStopSync(p, world, e) ==
    IF p.phase = "Failed" THEN StopSyncResult(p.cancelFailures, "", <<>>)
    ELSE IF world.source # "unnamed" /\ ~e.sourceGet
    THEN StopSyncResult(p.cancelFailures, "get source", <<>>)
    ELSE IF world.destination # "unnamed" /\ ~e.destinationGet
    THEN StopSyncResult(p.cancelFailures, "get destination", <<>>)
    ELSE LET abort == Abort(p.cancelFailures) \/ world.source \in {"gone", "deleting"}
             cleanupSource == world.destination \in {"gone", "deleting"}
         IN IF cleanupSource THEN StopSyncResult(p.cancelFailures, "TODO", <<>>)
            ELSE IF ~e.client THEN StopSyncResult(p.cancelFailures, "client", <<>>)
            ELSE IF CancelSynchronization(world, e) = "error"
            THEN StopSyncResult(p.cancelFailures + 1, "cancel", <<abort>>)
            ELSE StopSyncResult(p.cancelFailures, "", <<abort>>)

\* runFinalizers: the finalizer is removed when its inspection returns nil
runFinalizers(p, world, e) ==
    LET r == inspectFinalizerDeplReplStopSync(p, world, e) IN
    [p |-> [p EXCEPT !.cancelFailures = r.cancelFailures,
                     !.finalizer = ~(r.err = "" /\ e.remove)],
     inspect |-> r,
     err |-> IF r.err = "" /\ ~e.remove THEN "remove" ELSE ""]

NoReplLog ==
    [calls |-> 0, err |-> "", inspect |-> StopSyncResult(0, "", <<>>), before |-> 0,
     cancel |-> "none"]

IdleReplObj == [finalizer |-> FALSE, phase |-> "", cancelFailures |-> 0]

IdleReplWorld ==
    [source |-> "present", destination |-> "present", accepting |-> TRUE, faults |-> 0]

ReplIdle == replObj = IdleReplObj /\ replWorld = IdleReplWorld /\ replLog = NoReplLog

InitRepl ==
    /\ \E ph \in {"", "Failed"} :
           replObj = [finalizer |-> TRUE, phase |-> ph, cancelFailures |-> 0]
    /\ \E src \in DeploymentStates, dst \in DeploymentStates, acc \in BOOLEAN :
           replWorld = [source |-> src, destination |-> dst, accepting |-> acc,
                        faults |-> MaxFaults]
    /\ replLog = NoReplLog

otherThanRepl ==
    <<tickVars, agencyVars, imageVars, inspectorVars, singleVars, threadVars,
      progressVars, postVars, connVars, authVars, lookupVars, backupVars, refreshVars, electVars>>

\* one run of the finalizers of the object that is marked for deletion
RunFinalizers ==
    /\ replObj.finalizer
    /\ \E e \in ReplEnvs(replWorld.faults) : \E r \in {runFinalizers(replObj, replWorld, e)} :
           /\ r.p.cancelFailures <= MaxCancelCount
           /\ replObj' = r.p
           /\ replWorld' = [replWorld EXCEPT
                                !.faults = IF IsFault(e) /\ (r.err # "" \/ r.inspect.err # "")
                                           THEN @ - 1 ELSE @]
           /\ replLog' = [calls |-> IF replLog.calls < MaxReplCalls
                                     THEN replLog.calls + 1 ELSE replLog.calls,
                          err |-> r.err, inspect |-> r.inspect,
                          before |-> replObj.cancelFailures,
                          cancel |-> IF r.inspect.force = <<>> THEN "none"
                                     ELSE CancelSynchronization(replWorld, e)]
    /\ UNCHANGED otherThanRepl

\* the sync master gets ready to accept the cancel request
MasterAccepts ==
    /\ replObj.finalizer
    /\ ~replWorld.accepting
    /\ replWorld' = [replWorld EXCEPT !.accepting = TRUE]
    /\ UNCHANGED <<replObj, replLog>>
    /\ UNCHANGED otherThanRepl

NextRepl ==
    \/ RunFinalizers
    \/ MasterAccepts

(***************************************************************************)
(* Refresh in two steps.  refreshInThreads takes the copy when it starts   *)
(* and puts the throttles of the copy in place of the visible ones when it *)
(* ends; in between it waits for the loaders.  GetThrottles() returns the  *)
(* visible throttles without the lock of the cache, so an Invalidate can   *)
(* come at any time.  invalidateLog keeps the kinds invalidated since the  *)
(* last Refresh started: quiet for the ones issued while no Refresh was in *)
(* progress, during for the others.                                        *)
(***************************************************************************)
NoInvalidates == [quiet |-> {}, during |-> {}]

RefreshIdle == refreshCopy = <<>> /\ invalidateLog = NoInvalidates

otherThanRefresh ==
    <<tickVars, agencyVars, imageVars, singleVars, threadVars,
      progressVars, postVars, connVars, authVars, lookupVars, backupVars, replVars, electVars>>

\* lines 328-337: the lock is taken and the copy is made
RefreshBegin ==
    /\ refreshCopy = <<>>
    /\ inspectorLog.calls < MaxRefreshes
    /\ refreshCopy' = <<[n |-> copyCore(inspectorState),
                         loaded |-> Loaded(copyCore(inspectorState), inspectorClock),
                         owed |-> invalidateLog.quiet \cup invalidateLog.during,
                         owedQuiet |-> invalidateLog.quiet]>>
    /\ invalidateLog' = NoInvalidates
    /\ UNCHANGED inspectorVars
    /\ UNCHANGED otherThanRefresh

\* lines 354-412: the loaders have run; the copy is verified and put in place
RefreshEnd ==
    /\ refreshCopy # <<>>
    /\ \E e \in RefreshEnvs :
        \E r \in {refreshLoaded(inspectorState, refreshCopy[1].n, inspectorClock, e)} :
           /\ inspectorState' = r.i
           /\ inspectorLog' = [calls |-> inspectorLog.calls + 1, err |-> r.err,
                               loaded |-> refreshCopy[1].loaded]
    /\ refreshCopy' = <<>>
    /\ UNCHANGED <<inspectorClock, invalidateLog>>
    /\ UNCHANGED otherThanRefresh

\* GetThrottles().Invalidate(c) on a kind that has a throttle with a delay
InvalidateIssued ==
    /\ \E c \in ComponentSet :
        /\ ~CopyIsReceiver(inspectorState.throttles[c])
        /\ inspectorState' = [inspectorState EXCEPT !.throttles[c] = Invalidate(@)]
        /\ invalidateLog' =
              IF refreshCopy = <<>>
              THEN [invalidateLog EXCEPT !.quiet = @ \cup {c}]
              ELSE [invalidateLog EXCEPT !.during = @ \cup {c}]
    /\ UNCHANGED <<inspectorClock, inspectorLog, refreshCopy>>
    /\ UNCHANGED otherThanRefresh

\* time passes between two refreshes
AdvanceBetweenRefreshes ==
    /\ refreshCopy = <<>>
    /\ InspectorAdvance

NextRefresh ==
    \/ RefreshBegin
    \/ RefreshEnd
    \/ InvalidateIssued
    \/ AdvanceBetweenRefreshes

(***************************************************************************)
(* agentSet.refresh on its own: the responses of the agents, the leader    *)
(* the loop over the map of the results ended with (Go walks a map in an   *)
(* order that changes from one loop to the next), and what the deferred    *)
(* function stored in the set.                                             *)
(***************************************************************************)
NoRefreshLog == [called |-> FALSE, responses |-> <<>>, err |-> ""]

ElectIdle == refreshLog = NoRefreshLog

otherThanElect ==
    <<tickVars, imageVars, inspectorVars, singleVars, threadVars,
      progressVars, postVars, connVars, authVars, lookupVars, backupVars, replVars,
      refreshVars>>

AgentSetRefresh ==
    /\ \E r \in getAgencyConfigResults :
        \E leader \in (IF LeaderCandidates(r) = {} THEN {""} ELSE LeaderCandidates(r)) :
          \E f \in {refresh(r, leader)} :
            /\ agentSet' = [result |-> f.result, health |-> f.health]
            /\ refreshLog' = [called |-> TRUE, responses |-> r, err |-> f.err]
    /\ UNCHANGED <<agencyCache, agencyLog>>
    /\ UNCHANGED otherThanElect

NextElect == AgentSetRefresh

(***************************************************************************)
(* The parts that are idle in the specifications of the other parts.       *)
(***************************************************************************)
PartsIdle == ProgressIdle /\ PostIdle /\ ConnIdle /\ AuthIdle /\ LookupIdle /\ BackupIdle /\ ReplIdle /\ RefreshIdle /\ ElectIdle


(***************************************************************************)
(* The initial state and the specifications of the parts.                  *)
(***************************************************************************)
Init ==
    InitTick /\ InitAgency /\ ImageIdle /\ InspectorIdle /\ ClusterMode /\ ThreadsIdle /\ PartsIdle

Spec == Init /\ [][Next]_vars

SpecLock == Init /\ [][NextLock]_vars

SpecSwap == Init /\ [][NextSwap]_vars

InitOfFan ==
    InitTick /\ InitAgency /\ ImageIdle /\ InspectorIdle /\ ClusterMode
        /\ LockIdle /\ SwapIdle /\ InitFan /\ PartsIdle

SpecFan == InitOfFan /\ [][NextFan]_vars

\* every goroutine that can take a step takes one in the end
SpecFanFair == SpecFan /\ WF_vars(NextFan)

InitOfAgency ==
    InitTick /\ InitAgency /\ ImageIdle /\ InspectorIdle /\ InitMode /\ ThreadsIdle /\ PartsIdle

SpecAgency == InitOfAgency /\ [][NextAgency]_vars

InitOfTimeout ==
    InitTimeout /\ InitAgency /\ ImageIdle /\ InspectorIdle /\ ClusterMode /\ ThreadsIdle /\ PartsIdle

SpecTimeout == InitOfTimeout /\ [][NextTimeout]_vars

InitOfImage ==
    InitTick /\ InitAgency /\ InitImage /\ InspectorIdle /\ ClusterMode /\ ThreadsIdle /\ PartsIdle

InitOfInspector ==
    InitTick /\ InitAgency /\ ImageIdle /\ InitInspector /\ ClusterMode /\ ThreadsIdle /\ PartsIdle

SpecInspector == InitOfInspector /\ [][NextInspector]_vars

SpecImage == InitOfImage /\ [][NextImage]_vars

InitOfProgress ==
    InitTick /\ InitAgency /\ ImageIdle /\ InspectorIdle /\ ClusterMode /\ ThreadsIdle
        /\ InitProgress /\ PostIdle /\ ConnIdle /\ AuthIdle /\ LookupIdle /\ BackupIdle /\ ReplIdle /\ RefreshIdle /\ ElectIdle

SpecProgress == InitOfProgress /\ [][NextProgress]_vars

InitOfPost ==
    InitTick /\ InitAgency /\ ImageIdle /\ InspectorIdle /\ ClusterMode /\ ThreadsIdle
        /\ ProgressIdle /\ InitPost /\ ConnIdle /\ AuthIdle /\ LookupIdle /\ BackupIdle /\ ReplIdle /\ RefreshIdle /\ ElectIdle

SpecPost == InitOfPost /\ [][NextPost]_vars

InitOfLookup ==
    InitLookup /\ InitAgency /\ ImageIdle /\ InspectorIdle /\ ClusterMode /\ ThreadsIdle
        /\ ProgressIdle /\ PostIdle /\ ConnIdle /\ AuthIdle /\ BackupIdle /\ ReplIdle /\ RefreshIdle /\ ElectIdle

SpecLookup == InitOfLookup /\ [][NextLookup]_vars

InitOfConn ==
    InitTick /\ InitAgency /\ ImageIdle /\ InspectorIdle /\ ClusterMode /\ ThreadsIdle
        /\ ProgressIdle /\ PostIdle /\ InitConn /\ AuthIdle /\ LookupIdle /\ BackupIdle /\ ReplIdle /\ RefreshIdle /\ ElectIdle

SpecConn == InitOfConn /\ [][NextConn]_vars

InitOfAuth ==
    InitTick /\ InitAgency /\ ImageIdle /\ InspectorIdle /\ ClusterMode /\ ThreadsIdle
        /\ ProgressIdle /\ PostIdle /\ ConnIdle /\ InitAuth /\ LookupIdle /\ BackupIdle /\ ReplIdle /\ RefreshIdle /\ ElectIdle

SpecAuth == InitOfAuth /\ [][NextAuth]_vars

InitOfBackup ==
    InitTick /\ InitAgency /\ ImageIdle /\ InspectorIdle /\ ClusterMode /\ ThreadsIdle
        /\ ProgressIdle /\ PostIdle /\ ConnIdle /\ AuthIdle /\ LookupIdle /\ InitBackup /\ ReplIdle /\ RefreshIdle /\ ElectIdle

SpecBackup == InitOfBackup /\ [][NextBackup]_vars

InitOfRepl ==
    InitTick /\ InitAgency /\ ImageIdle /\ InspectorIdle /\ ClusterMode /\ ThreadsIdle
        /\ ProgressIdle /\ PostIdle /\ ConnIdle /\ AuthIdle /\ LookupIdle /\ BackupIdle /\ InitRepl /\ RefreshIdle /\ ElectIdle

SpecRepl == InitOfRepl /\ [][NextRepl]_vars

\* the operator goes on running the finalizers, the master comes to accept
SpecReplFair == SpecRepl /\ WF_vars(RunFinalizers) /\ WF_vars(MasterAccepts)

InitOfRefresh ==
    InitTick /\ InitAgency /\ ImageIdle /\ InitInspector /\ ClusterMode /\ ThreadsIdle /\ PartsIdle

SpecRefresh == InitOfRefresh /\ [][NextRefresh]_vars

InitOfElect ==
    InitTick /\ InitAgency /\ ImageIdle /\ InspectorIdle /\ ClusterMode /\ ThreadsIdle /\ PartsIdle

SpecElect == InitOfElect /\ [][NextElect]_vars

(***************************************************************************)
(* Properties of the tick.                                                 *)
(***************************************************************************)
\* the exits of a tick that did not get past the spec-acceptance check
EarlyExits ==
    {"none", "RefreshFailed", "Gone", "Finalizers", "Maintenance", "SpecRejected",
     "SpecAcceptedNew", "SpecRestored", "CannotProceed", "PhaseFailed", "UpgradeFailed",
     "ChecksumFailed", "SpecAcceptedFailed", "SpecAcceptedFalse", "SpecAcceptedTrue"}

\* the tick wrote the condition t with the given status
Wrote(t, status) ==
    \E i \in DOMAIN tickLog.writes :
        tickLog.writes[i].type = t /\ tickLog.writes[i].status = status

ChangedConditions == {t \in ConditionTypes : st'.conditions[t] # st.conditions[t]}

TickStep == tickLog = NoTick /\ tickLog' # NoTick

\* C1: the persisted status never has UpToDate true while the plan is not
\* empty, at the end of every tick, also of one in which CreatePlan made a plan.
C1_UpToDateOnlyWithEmptyPlan ==
    ~(IsTrue(st.conditions, "UpToDate") /\ ~IsPlanEmpty(st))

\* C8: when a tick writes UpToDate=true, the persisted status has an empty plan,
\* AppliedVersion equal to AcceptedSpecVersion, SpecAccepted and Reachable true
\* and no member with a Restart, PendingRestart or PVCResizePending condition.
C8_UpToDateTrueWrite ==
    Wrote("UpToDate", TRUE) =>
        /\ IsPlanEmpty(st)
        /\ st.acceptedSpecVersion = <<st.appliedVersion>>
        /\ IsTrue(st.conditions, "SpecAccepted")
        /\ IsTrue(st.conditions, "Reachable")
        /\ \A i \in 1..Len(MemberList) : st.members[MemberList[i]] = {}

\* C9: in a tick at most one condition of the status changes, and a tick that
\* changes a condition returns the minimum interval.
C9_OneConditionPerTick ==
    [][TickStep =>
        /\ Cardinality(ChangedConditions) <= 1
        /\ (ChangedConditions # {} => tickLog'.result = minInspectionInterval)]_vars

\* C10: a tick that gets past the spec-acceptance check without writing a
\* condition there leaves SpecAccepted true exactly when AcceptedSpecVersion is
\* set and equals the checksum of the spec; a tick that finds them to disagree
\* writes the corrected SpecAccepted with that checksum as hash and returns the
\* minimum interval.
C10_SpecAcceptedAgreesPastCheck ==
    tickLog.exit \notin EarlyExits =>
        (IsTrue(st.conditions, "SpecAccepted")
            <=> st.acceptedSpecVersion = <<Checksum(crSpec)>>)

C10_SpecAcceptedCorrected ==
    \A b \in BOOLEAN :
        Wrote("SpecAccepted", b) =>
            /\ b = (st.acceptedSpecVersion = <<Checksum(crSpec)>>)
            /\ st.conditions["SpecAccepted"].hash = Checksum(crSpec)
            /\ Len(tickLog.writes) = 1

C10_SpecAcceptedCheck ==
    /\ C10_SpecAcceptedAgreesPastCheck
    /\ C10_SpecAcceptedCorrected
    /\ (\E b \in BOOLEAN : Wrote("SpecAccepted", b)) =>
            tickLog.result = minInspectionInterval

(***************************************************************************)
(* Properties of the agency cache.                                         *)
(***************************************************************************)
ReloadStep == agencyLog'.called /\ <<agencyCache, agentSet, agencyLog>>' # agencyVars

\* the Reload of this step found the leader at commit index i
Observed(i) == agencyLog'.observed = <<i>>

\* C2: Reload replaces the cached State only when the commit index of the
\* leader is greater than the cached one or the cache is not valid; a Reload
\* that finds a lower commit index while the cache is valid leaves the cached
\* State and commit index as they were.
C2_ReplacedOnlyOnAdvance ==
    [][\A i \in CommitIndexes :
        Observed(i) =>
            /\ (agencyCache'.data # agencyCache.data
                    => i > agencyCache.commitIndex \/ ~agencyCache.valid)
            /\ (i < agencyCache.commitIndex /\ agencyCache.valid
                    => /\ agencyCache'.data = agencyCache.data
                       /\ agencyCache'.commitIndex = agencyCache.commitIndex)]_vars

\* C3: a Reload that finds the cache valid and the leader on the cached commit
\* index does not call loadState, leaves data, validity and commit index alone
\* and returns that commit index without an error, however often it is repeated.
C3_SameIndexIsNoop ==
    [][agencyCache.valid /\ Observed(agencyCache.commitIndex) =>
        /\ ~agencyLog'.fetched
        /\ agencyCache' = agencyCache
        /\ agencyLog'.ret = agencyCache.commitIndex
        /\ agencyLog'.err = ""]_vars

\* two Reloads in a row found the valid cache on the index of the leader
C3_Witness ==
    /\ agencyLog.noops = 2
    /\ ~agencyLog.fetched
    /\ agencyCache.valid
    /\ agencyLog.ret = agencyCache.commitIndex
    /\ agencyCache.commitIndex > 0

(***************************************************************************)
(* Properties of the RuntimeContainerImageUpdate action.                   *)
(***************************************************************************)
Started == imageLog.starts > 0

\* C4 as the spec has it: a Start that finds the target image in place returns
\* ready without an error and sends no pod to the API server, and the Start
\* after a Start that updated the pod sends none.
C4_StartIsIdempotent ==
    Started =>
        /\ (imageLog.satisfied =>
                imageLog.ready /\ imageLog.err = "" /\ ~imageLog.updated)
        /\ (imageLog.afterUpdate => ~imageLog.updated)

\* C4, as the code has it: a Start that finds the target image in place sends
\* no pod to the API server; it returns ready without an error unless the
\* cluster cache of the member is missing (ready, "Client is not ready") or
\* the ArangoMember is not in the cache (not ready, "ArangoMember not found");
\* the Start after a Start that updated the pod sends none if it is handed
\* the pod as the API server has it.
C4_StartWhenSatisfied ==
    Started =>
        /\ (imageLog.satisfied =>
                /\ ~imageLog.updated
                /\ imageLog.err \in {"", "Client is not ready", "ArangoMember not found"}
                /\ (imageLog.err = "Client is not ready" =>
                        imageLog.ready /\ imageEnv.memberPresent /\ ~imageEnv.clusterCache)
                /\ (imageLog.err = "ArangoMember not found" =>
                        /\ ~imageLog.ready
                        /\ imageEnv.memberPresent /\ imageEnv.clusterCache
                        /\ imageEnv.phaseReady /\ ~imageEnv.arangoMember)
                /\ (imageLog.err = "" => imageLog.ready)
                /\ (imageEnv.clusterCache /\ imageEnv.arangoMember =>
                        imageLog.ready /\ imageLog.err = ""))
        /\ (imageLog.afterUpdate /\ imageLog.sawUpdate => ~imageLog.updated)

\* a second Start right after a Start that updated the image of the pod
C4_Witness ==
    /\ imageLog.starts = 2
    /\ imageLog.afterUpdate
    /\ imageLog.sawUpdate
    /\ imageLog.satisfied
    /\ imageLog.ready
    /\ imageLog.err = ""
    /\ ~imageLog.updated
    /\ imageEnv.podServer[1].image = TargetImage

(***************************************************************************)
(* Properties of the action timeout.                                       *)
(***************************************************************************)
\* the first action of the plan was started and is being polled
PolledAction == ~IsPlanEmpty(st) /\ Head(st.plan).started

\* the time at which the polled action times out
Deadline == Head(st.plan).startTime + GetActionTimeout(crSpec, Head(st.plan).type)

\* C5 as the spec has it: a started action that never gets ready is aborted by
\* the first tick at or after its start time plus its timeout, not before.
C5_AbortAtFirstTickAfterTimeout ==
    [][TickStep /\ PolledAction =>
        /\ (tickLog'.exec = "timeout" => now >= Deadline)
        /\ (now >= Deadline => tickLog'.exec \in {"timeout", "done", "aborted"})]_vars

\* C5, as the code has it: a started action that never gets ready is aborted,
\* and removed from the plan, by the first tick at or after its start time
\* plus its timeout that gets to the execution of the plan, not before; a
\* tick that ends before the execution of the plan leaves the action alone.
C5_AbortAtFirstExecutionAfterTimeout ==
    [][TickStep /\ PolledAction =>
        /\ (tickLog'.exec = "timeout" => now >= Deadline /\ st'.plan = Tail(st.plan))
        /\ (tickLog'.exec = "polling" => now < Deadline /\ st'.plan = st.plan)
        /\ (tickLog'.exec = "none" => st'.plan = st.plan)
        /\ tickLog'.exec \in {"timeout", "polling", "none", "done", "aborted"}]_vars

\* an action with a timeout from the spec was aborted when that time was over
C5_Witness ==
    /\ tickLog.exec = "timeout"
    /\ "RuntimeContainerImageUpdate" \in DOMAIN crSpec.timeouts
    /\ now = crSpec.timeouts["RuntimeContainerImageUpdate"]
    /\ IsPlanEmpty(st)

(***************************************************************************)
(* Immutable fields.                                                       *)
(***************************************************************************)
\* the exits of a tick that ends before the spec-acceptance check
BeforeAcceptance == {"RefreshFailed", "Gone", "Finalizers", "Maintenance"}

\* the immutable fields of the accepted spec stay as they were accepted
AcceptedImmutableKept ==
    (st.acceptedSpec # <<>>) =>
        /\ st'.acceptedSpec # <<>>
        /\ ChangedImmutableFields(st.acceptedSpec[1], st'.acceptedSpec[1]) = {}

\* C6 (as stated): when an immutable field of the object is changed after
\* the spec was accepted, the field is back at its accepted value after at
\* most two ticks, the accepted spec never takes the change, and no tick
\* writes UpToDate=true while the field differs.
C6_RestoredWithinTwoTicks ==
    /\ driftTicks < 2
    /\ ImmutableDrift(crSpec, st) => ~Wrote("UpToDate", TRUE)

\* C6 (amended): a tick that starts with a changed immutable field never
\* writes UpToDate=true and never changes the immutable fields of the
\* accepted spec; unless it ends before the spec-acceptance check or cannot
\* write the object, it puts the fields back and ends right there.
C6_RestoredByAcceptanceCheck ==
    [][/\ AcceptedImmutableKept
       /\ (TickStep /\ ImmutableDrift(crSpec, st)) =>
            /\ ~\E i \in 1..Len(tickLog'.writes) :
                  /\ tickLog'.writes[i].type = "UpToDate"
                  /\ tickLog'.writes[i].status = TRUE
            /\ tickLog'.exit \in BeforeAcceptance \cup {"SpecRejected", "SpecRestored"}
            /\ tickLog'.exit = "SpecRestored" =>
                  /\ ~ImmutableDrift(crSpec', st')
                  /\ st' = st
            /\ tickLog'.exit # "SpecRestored" => crSpec' = crSpec]_vars

C6_Witness ==
    /\ tickLog.exit = "SpecRestored"
    /\ envEvents = 1
    /\ st.acceptedSpec # <<>>
    /\ crSpec = st.acceptedSpec[1]
    /\ driftTicks = 0

(***************************************************************************)
(* The resource cache.                                                     *)
(***************************************************************************)
RefreshStep == inspectorLog'.calls = inspectorLog.calls + 1

\* C7: a Refresh in which a loader's Verify or validate() fails returns the
\* error and leaves the visible cache as it was: the data of every kind, the
\* deployment result, the throttles, the time of the last refresh and the
\* initialised flag.
C7_FailedRefreshKeepsSnapshot ==
    [][(RefreshStep /\ inspectorLog'.err # "") => inspectorState' = inspectorState]_vars

\* C7, without the throttles: what a failed Refresh does leave as it was
C7_FailedRefreshKeepsData ==
    [][(RefreshStep /\ inspectorLog'.err # "") =>
          /\ inspectorState'.data = inspectorState.data
          /\ inspectorState'.deploymentResult = inspectorState.deploymentResult
          /\ inspectorState'.last = inspectorState.last
          /\ inspectorState'.initialised = inspectorState.initialised
          /\ \A c \in ComponentSet :
                ~CopyIsReceiver(inspectorState.throttles[c]) =>
                    inspectorState'.throttles[c] = inspectorState.throttles[c]]_vars

(***************************************************************************)
(* Properties of the agency cache: errors, the leader, the health map.     *)
(***************************************************************************)
\* the refresh of the Reload of this step found the leader
RefreshedOk == agencyLog'.called /\ agentSet'.result # NoAgentSetResult

\* C11: a Reload in which no response names a leader returns an error (and
\* the index 0) and leaves data, validity and commit index of the cache as
\* they were.
C11_NoLeaderKeepsCache ==
    [][(agencyLog'.called /\ agencyLog'.named = {}) =>
          /\ agencyLog'.err = "NoLeader in Agency"
          /\ agencyLog'.ret = 0
          /\ ~agencyLog'.fetched
          /\ agencyCache' = agencyCache]_vars

\* a Reload without a leader, with a valid state in the cache
C11_Witness ==
    /\ agencyLog.called
    /\ agencyLog.named = {}
    /\ agencyLog.err = "NoLeader in Agency"
    /\ agencyCache.valid
    /\ agencyCache.data # NoState
    /\ agencyCache.commitIndex > 0

\* C12: when the leader is found and loadState fails, Reload returns the
\* commit index of the leader with the error, the cache is not valid
\* afterwards and keeps its data and commit index; a Reload that finds a
\* leader while the cache is not valid calls loadState, also on the cached
\* commit index.
C12_FailedFetchInvalidates ==
    [][/\ (agencyLog'.called /\ agencyLog'.fetched /\ agencyLog'.err # "") =>
            /\ agencyLog'.observed # <<>>
            /\ agencyLog'.ret = agencyLog'.observed[1]
            /\ ~agencyCache'.valid
            /\ agencyCache'.commitIndex = agencyCache.commitIndex
            /\ agencyCache'.data = agencyCache.data
       /\ (RefreshedOk /\ ~agencyCache.valid) => agencyLog'.fetched]_vars

\* a failed loadState on the cached commit index of a cache that was loaded
\* before: the fetch was tried again although the index is the cached one
C12_Witness ==
    /\ agencyLog.called
    /\ agencyLog.fetched
    /\ agencyLog.err = "loadState"
    /\ ~agencyCache.valid
    /\ agencyCache.data # NoState
    /\ agencyLog.ret = agencyCache.commitIndex
    /\ agencyCache.commitIndex > 0

\* C13: after a refresh that found the leader, Leader() returns the id of the
\* leader, the commit index of the response of the leader and the connection
\* registered under the id of the leader, and loadState goes through it.
C13_LeaderConnection ==
    /\ agentSet.result # NoAgentSetResult =>
          /\ Leader(agentSet).ok
          /\ Leader(agentSet).id = agencyLog.leader
          /\ agencyLog.observed = <<Leader(agentSet).commitIndex>>
          /\ Leader(agentSet).conn = Clients[Leader(agentSet).id]
    /\ agencyLog.fetched => agencyLog.conn = Clients[agencyLog.leader]

\* C13, without the connection: the id and the commit index of the leader
C13_LeaderIdAndIndex ==
    agentSet.result # NoAgentSetResult =>
        /\ Leader(agentSet).ok
        /\ Leader(agentSet).id = agencyLog.leader
        /\ agencyLog.observed = <<Leader(agentSet).commitIndex>>
        /\ Leader(agentSet).conn = NoConnection

\* C14 as stated: after a refresh that found the leader the healthy agents
\* are the ones that answered without an error and are in the active list
\* of the leader; after a failed refresh no agent is healthy.
C14_HealthyIffActiveAndAnswered ==
    [][agencyLog'.called =>
          IF agentSet'.result # NoAgentSetResult
          THEN agentSet'.health = agencyLog'.responded \cap agencyLog'.active
          ELSE agentSet'.health = {}]_vars

\* C14 (amended): after a refresh that found the leader the healthy agents
\* are the leader, whether its active list names it or not, and the agents
\* of the active list of the leader that answered without an error; after a
\* failed refresh no agent is healthy.
C14_HealthyLeaderAndActive ==
    [][agencyLog'.called =>
          IF agentSet'.result # NoAgentSetResult
          THEN agentSet'.health =
                  {agencyLog'.leader} \cup (agencyLog'.responded \cap agencyLog'.active)
          ELSE agentSet'.health = {}]_vars

\* the leader is healthy without being in its active list, and the agent of
\* the active list did not answer
C14_Witness ==
    /\ agencyLog.called
    /\ agentSet.result # NoAgentSetResult
    /\ agencyLog.leader \notin agencyLog.active
    /\ agencyLog.active # {}
    /\ agencyLog.responded = {agencyLog.leader}
    /\ agentSet.health = {agencyLog.leader}

(***************************************************************************)
(* Properties of the cache of a deployment in Single mode.                 *)
(***************************************************************************)
\* C15: in Single mode, after any sequence of calls, Reload returns 0 and no
\* error, CommitIndex returns 0, Data returns the empty State as valid, the
\* agent set has size 0 and neither a leader nor an agent connection, and no
\* request was sent: no agent was asked and no state was loaded.
C15_SingleCacheIsEmptyAndSilent ==
    agencyMode = "Single" =>
        /\ ~agencyLog.called
        /\ ~agencyLog.fetched
        /\ agentSet.result = NoAgentSetResult
        /\ singleLog.method = "Reload" =>
              singleLog.result[1].ret = 0 /\ singleLog.result[1].err = ""
        /\ singleLog.method = "CommitIndex" => singleLog.result[1].ret = 0
        /\ singleLog.method = "Data" =>
              singleLog.result[1].data = NoState /\ singleLog.result[1].valid
        /\ singleLog.method = "AgentSet" =>
              /\ singleLog.result[1].size = 0
              /\ ~singleLog.result[1].leader.ok
              /\ singleLog.result[1].leader.conn = NoConnection
              /\ ~singleLog.result[1].agent.ok
              /\ singleLog.result[1].agent.conn = NoConnection

\* a Reload of the cache of a single server after other calls
C15_Witness ==
    /\ agencyMode = "Single"
    /\ singleLog.calls = MaxSingleCalls
    /\ singleLog.method = "Reload"
    /\ singleLog.result = <<cacheSingleReload>>

(***************************************************************************)
(* Properties of the mutex of the agency cache.                            *)
(***************************************************************************)
\* C16: a reader never waits for a Reload: a Data() or CommitIndex() called
\* while a Reload waits for the agents or for loadState can return at once,
\* and it returns what the cache held when it was called.
C16_ReaderNeverBlocks ==
    /\ (readerPc = "called" /\ readerLog.during) => cacheLock = "free"
    /\ (readerPc = "idle" /\ readerLog.during) =>
          /\ ~readerLog.waited
          /\ readerLog.result = readerLog.atCall

(***************************************************************************)
(* Properties of the swap of the resource cache.                           *)
(***************************************************************************)
\* C17: the new snapshot is swapped in at once for the readers: a reader
\* that reads several kinds through the accessors while a Refresh runs never
\* gets the data of one kind from that Refresh and the data of another kind
\* from the one before: two reads made while the same Refresh puts its
\* snapshot in get data of the same Refresh.
C17_SwapIsAtomic ==
    \A j, k \in DOMAIN swapReader.seen :
        (swapReader.inCopyOf[j] # 0 /\ swapReader.inCopyOf[j] = swapReader.inCopyOf[k])
            => swapReader.seen[j] = swapReader.seen[k]

(***************************************************************************)
(* Properties of the fan-outs.                                             *)
(***************************************************************************)
\* the result holds an entry for the input i (the nil entry that
\* getAgencyConfigResults puts in before it starts its goroutines is one)
HasEntry(i) == fanJoined[i] \in {"kept", "loaded", "set", "nil"}

\* C18: in every fan-out the result is read only when every goroutine has
\* finished, and the result then holds one entry for every input.
C18_JoinedResultIsComplete ==
    fanState = "joined" =>
        /\ \A i \in FanInputs : fanWorkers[i] = "done"
        /\ \A i \in FanInputs : HasEntry(i)

\* C18, the join alone: the result is read only when every goroutine is done
C18_ReadAfterJoin ==
    fanState = "joined" => \A i \in FanInputs : fanWorkers[i] = "done"

\* C19: in a Refresh with N threads at most N loaders are in Load at any
\* moment, whatever the number of loaders; when every Load returns, the
\* Refresh gets to the end of its wait, and every loader that its throttle
\* allowed has been loaded by then.
C19_BoundedPoolTerminates ==
    /\ [](fanKind.kind = "refreshInThreads" =>
             /\ Cardinality(Loading(fanWorkers)) <= fanKind.threads
             /\ fanState = "joined" =>
                    \A i \in fanKind.allowed : fanJoined[i] = "loaded")
    /\ (fanKind.kind = "refreshInThreads") => <>(fanState = "joined")

\* a Refresh with more allowed loaders than threads has loaded all of them
C19_Witness ==
    /\ fanKind.kind = "refreshInThreads"
    /\ Cardinality(fanKind.allowed) > fanKind.threads
    /\ fanState = "joined"
    /\ \A i \in fanKind.allowed : fanJoined[i] = "loaded"

(***************************************************************************)
(* Properties of the throttles of the resource cache.                      *)
(***************************************************************************)
\* the window of the kind c is closed: the visible cache never got data of
\* the kind, or the delay has passed since the load of the data it holds,
\* or the throttle was invalidated
WindowClosed(c) ==
    \/ inspectorState.data[c].at = ZeroTime
    \/ inspectorState.data[c].at + inspectorState.throttles[c].delay < inspectorClock
    \/ inspectorState.throttles[c].next = UnixMilliZero

\* C20: a Refresh loads a kind with a delay only if the window of the kind
\* is closed: the kind was never loaded, or the delay has passed since its
\* last load in a Refresh that succeeded, or it was invalidated.  A kind the
\* Refresh skips keeps its visible data and its next-allowed time, so the
\* window a successful Refresh opened holds in the Refreshes after it.
C20_ThrottleWindowHonoured ==
    [][RefreshStep =>
          \A c \in ComponentSet :
              inspectorState.throttles[c].delay # 0 =>
                  /\ c \in inspectorLog'.loaded => WindowClosed(c)
                  /\ c \notin inspectorLog'.loaded =>
                        /\ inspectorState'.data[c] = inspectorState.data[c]
                        /\ inspectorState'.throttles[c].next
                               = inspectorState.throttles[c].next]_vars

\* a Refresh after a successful one has succeeded and has skipped a kind
\* that the earlier one loaded, and another Refresh has loaded such a kind
\* again when its delay had passed
C20_Witness ==
    /\ inspectorLog.calls >= 2
    /\ inspectorLog.err = ""
    /\ \E c \in ComponentSet :
          /\ inspectorState.throttles[c].delay # 0
          /\ c \notin inspectorLog.loaded
          /\ inspectorState.data[c].at # ZeroTime
          /\ inspectorState.throttles[c].next
                 = inspectorState.data[c].at + inspectorState.throttles[c].delay
          /\ inspectorState.last > inspectorState.data[c].at

(***************************************************************************)
(* Properties of CheckProgress of the image update action.                 *)
(***************************************************************************)
\* C21: when the container is in a crash loop past the restart period
\* (Waiting, restart policy Always, last termination finished more than the
\* period ago), or has terminated with the image of the action,
\* CheckProgress returns abort = true and an error.
C21_CrashLoopAborts ==
    (progressLog.crashLooping \/ progressLog.terminated)
      => /\ progressLog.result[1].abort
         /\ progressLog.result[1].err # ""

\* C21, what the code does in these cases: an error, ready = true, and
\* abort = false
C21_CrashLoopReadyWithError ==
    (progressLog.crashLooping \/ progressLog.terminated)
      => /\ progressLog.result[1].ready
         /\ ~progressLog.result[1].abort
         /\ progressLog.result[1].err # ""

(***************************************************************************)
(* Properties of Post of the image update action.                          *)
(***************************************************************************)
PostStep == postLog'.calls = postLog.calls + 1

\* the spec template has the image of the action for the container the
\* action names, and the status template has that container at the same
\* place
SpecHasTarget(env) ==
    /\ env.memberPresent /\ env.arangoMember /\ env.params # <<>>
    /\ env.specTemplate # <<>> /\ env.statusTemplate # <<>>
    /\ Len(env.specTemplate[1]) = Len(env.statusTemplate[1])
    /\ \E id \in 1..Len(env.specTemplate[1]) :
        /\ env.specTemplate[1][id].name = env.params[1].name
        /\ env.statusTemplate[1][id].name = env.params[1].name
        /\ env.specTemplate[1][id].image = env.params[1].image

\* C22: Post writes the image into the status template only if the spec
\* template has the image of the action for the named container at the same
\* index, and then it writes that image and nothing else; in every other
\* case the status is left as it was; and a Post after a Post that wrote the
\* status writes nothing.
C22_PostWritesOnlyConfirmed ==
    [][PostStep =>
          /\ postLog'.wrote =>
                /\ SpecHasTarget(postEnv)
                /\ \E id \in 1..Len(postEnv.statusTemplate[1]) :
                      /\ postEnv.statusTemplate[1][id].name = postEnv.params[1].name
                      /\ postEnv'.statusTemplate =
                            <<[postEnv.statusTemplate[1] EXCEPT
                                  ![id].image = postEnv.params[1].image]>>
                /\ postEnv'.specTemplate = postEnv.specTemplate
          /\ ~postLog'.wrote => postEnv' = postEnv
          /\ ~SpecHasTarget(postEnv) => ~postLog'.changed
          /\ postLog.wrote => ~postLog'.changed]_vars

\* a second Post after one that wrote the status has written nothing
C22_Witness ==
    /\ postLog.before
    /\ ~postLog.changed
    /\ postLog.err = ""
    /\ SpecHasTarget(postEnv)
    /\ \E id \in 1..Len(postEnv.statusTemplate[1]) :
          /\ postEnv.statusTemplate[1][id].name = postEnv.params[1].name
          /\ postEnv.statusTemplate[1][id].image = postEnv.params[1].image

(***************************************************************************)
(* Properties of the tick: the plan, AppliedVersion, the order of the      *)
(* steps, the interval of a failed tick, reasons and messages.             *)
(***************************************************************************)
\* C23: a tick in which CreatePlan reports updated = true returns the
\* minimum inspection interval and does nothing after CreatePlan: it writes
\* no condition and no AppliedVersion and does not call ExecutePlan, so no
\* action of the new plan is started in that tick.
C23_PlanGeneratedRetriesAtOnce ==
    [][(TickStep /\ tickLog'.exit = "PlanGenerated") =>
          /\ tickLog'.result = minInspectionInterval
          /\ tickLog'.writes = <<>>
          /\ tickLog'.exec = "none"
          /\ st'.conditions = st.conditions
          /\ st'.appliedVersion = st.appliedVersion
          /\ st'.plan # <<>>
          /\ \A k \in 1..Len(st'.plan) : ~st'.plan[k].started]_vars

\* C23, without the interval: what the tick of a new plan does leave undone
C23_PlanGeneratedOnlyPlan ==
    [][(TickStep /\ tickLog'.exit = "PlanGenerated") =>
          /\ tickLog'.writes = <<>>
          /\ tickLog'.exec = "none"
          /\ st'.conditions = st.conditions
          /\ st'.appliedVersion = st.appliedVersion
          /\ st'.plan # <<>>
          /\ \A k \in 1..Len(st'.plan) : ~st'.plan[k].started]_vars

FirstStep(steps, name) ==
    IF \E k \in 1..Len(steps) : steps[k] = name
    THEN CHOOSE k \in 1..Len(steps) :
             steps[k] = name /\ \A j \in 1..(k - 1) : steps[j] # name
    ELSE 0

\* C25: in every tick the steps run in the order resource cache refresh,
\* agency cache reload, member state refresh, conditions, plan creation or
\* plan execution: member state is never recomputed in a tick before the
\* agency cache has been reloaded in that tick.
C25_AgencyBeforeMemberState ==
    FirstStep(tickLog.steps, "MemberState") # 0 =>
        /\ FirstStep(tickLog.steps, "AgencyCache") # 0
        /\ FirstStep(tickLog.steps, "AgencyCache") < FirstStep(tickLog.steps, "MemberState")

\* what holds of the order: the resource cache is refreshed first, the
\* member state comes next, and the agency cache is reloaded before the
\* plan is made and before an action of it is executed
C25_OrderOfTheCode ==
    /\ tickLog # NoTick => tickLog.steps[1] = "ResourceCache"
    /\ FirstStep(tickLog.steps, "MemberState") \in {0, 2}
    /\ FirstStep(tickLog.steps, "Plan") # 0 =>
           FirstStep(tickLog.steps, "Plan") = FirstStep(tickLog.steps, "AgencyCache") + 1
    /\ FirstStep(tickLog.steps, "Execute") # 0 =>
           /\ FirstStep(tickLog.steps, "Plan") # 0
           /\ FirstStep(tickLog.steps, "Plan") < FirstStep(tickLog.steps, "Execute")

\* C26: a tick that ends with an error (resource refresh, finalizers,
\* upgrade, or any error of inspectDeploymentWithError) returns the minimum
\* inspection interval, whatever interval it was called with and however
\* many ticks failed before it.
C26_FailedTickRetriesAtOnce ==
    tickLog.err \in {"error", "reconcile"} => tickLog.result = minInspectionInterval

\* what holds: every failed tick other than a failed finalizer run returns
\* the minimum inspection interval
C26_FailedTickButFinalizers ==
    (tickLog.err \in {"error", "reconcile"} /\ tickLog.exit # "Finalizers") =>
        tickLog.result = minInspectionInterval

\* C27: every condition transition a tick writes (SpecAccepted, UpToDate,
\* Reachable) carries a non-empty reason and a non-empty message, on every
\* path that writes it.
C27_WritesCarryReasonAndMessage ==
    \A k \in 1..Len(tickLog.writes) :
        tickLog.writes[k].type \in {"SpecAccepted", "UpToDate", "Reachable"} =>
            tickLog.writes[k].reason # "" /\ tickLog.writes[k].message # ""

\* what holds: SpecAccepted and UpToDate are written with a message,
\* SpecAccepted and Reachable with a reason, and UpToDate with a reason
\* unless it is set to false while the Reachable condition is not true
C27_WritesOfTheCode ==
    \A k \in 1..Len(tickLog.writes) :
        LET w == tickLog.writes[k] IN
        /\ w.type \in {"SpecAccepted", "UpToDate"} => w.message # ""
        /\ w.type \in {"SpecAccepted", "Reachable"} => w.reason # ""
        /\ w.type = "Reachable" => w.message = ""
        /\ (w.type = "UpToDate" /\ w.status) => w.reason # ""

\* an UpToDate transition without a reason
C27_UpToDateWithoutReason ==
    \A k \in 1..Len(tickLog.writes) :
        tickLog.writes[k].type = "UpToDate" => tickLog.writes[k].reason # ""

(***************************************************************************)
(* Properties of GetActionTimeout.                                         *)
(***************************************************************************)
\* C28: GetActionTimeout(spec, t) returns the override of the spec for type
\* t when there is one; otherwise the timeout registered for t; otherwise
\* the 'default' override of the spec; otherwise the registered 'default'
\* timeout; otherwise defaultTimeout.  An override of the spec for a type
\* wins over the registered timeout of that type.
C28_TimeoutLookupOrder ==
    timeoutLog # NoLookup =>
        LET t == timeoutLog.type
            o == crSpec.timeouts
        IN timeoutLog.result[1] =
               IF t \in DOMAIN o THEN o[t]
               ELSE IF t \in DOMAIN actionTimeouts THEN actionTimeouts[t]
               ELSE IF "default" \in DOMAIN o THEN o["default"]
               ELSE IF "default" \in DOMAIN actionTimeouts THEN actionTimeouts["default"]
               ELSE defaultTimeout

\* the override of a registered type has won over its registered timeout
\* and over the 'default' override of the spec
C28_Witness ==
    /\ timeoutLog.type = "RuntimeContainerImageUpdate"
    /\ {"RuntimeContainerImageUpdate", "default"} \subseteq DOMAIN crSpec.timeouts
    /\ crSpec.timeouts["RuntimeContainerImageUpdate"] # crSpec.timeouts["default"]
    /\ crSpec.timeouts["RuntimeContainerImageUpdate"]
           # actionTimeouts["RuntimeContainerImageUpdate"]
    /\ timeoutLog.result = <<crSpec.timeouts["RuntimeContainerImageUpdate"]>>

\* a registered type without an override keeps its registered timeout under
\* a spec that overrides 'default'
C28_RegisteredBeforeSpecDefault ==
    /\ timeoutLog.type = "DisableClusterScaling"
    /\ "default" \in DOMAIN crSpec.timeouts
    /\ timeoutLog.result = <<0>>

\* a type that is not registered gets the 'default' override of the spec
C28_SpecDefaultForOtherTypes ==
    /\ timeoutLog.type = "AddMember"
    /\ "AddMember" \notin DOMAIN crSpec.timeouts
    /\ "default" \in DOMAIN crSpec.timeouts
    /\ timeoutLog.result = <<crSpec.timeouts["default"]>>
    /\ timeoutLog.result # <<defaultTimeout>>

(***************************************************************************)
(* Properties of the client cache.                                         *)
(***************************************************************************)
\* C29: member connections are made lazily and cached per group and member
\* id: repeated GetConnection calls for one group and id return the same
\* connection object and call the connection factory at most once.
C29_ConnectionMadeOnce ==
    /\ [](\A k \in ConnKeys : Cardinality(connLog.returned[k]) <= 1)
    /\ [][\A k \in ConnKeys :
             connLog'.factory[k] # connLog.factory[k] => connLog.returned[k] = {}]_vars

\* what holds: every GetConnection that finds an endpoint calls the factory,
\* and every connection it returns is a new one
C29_ConnectionMadeAtEveryCall ==
    /\ [](\A k \in ConnKeys : Cardinality(connLog.returned[k]) <= connLog.factory[k])
    /\ [](connLog.result # <<>> =>
             /\ connLog.result[1] = connCache.made
             /\ \A k \in ConnKeys :
                    connLog.result[1] \in connLog.returned[k] <=> k = connLog.key)
    /\ [][\A k \in ConnKeys :
             connLog'.returned[k] # connLog.returned[k] =>
                 /\ connLog'.factory[k] = connLog.factory[k] + 1
                 /\ Cardinality(connLog'.returned[k])
                        = Cardinality(connLog.returned[k]) + 1]_vars

(***************************************************************************)
(* Properties of the authenticating connection.                            *)
(***************************************************************************)
\* C30: Do refreshes the authentication if and only if a response has
\* status 401; it then re-authenticates once, sends the request once more
\* and returns that second result whatever its status.  One Do sends at most
\* two requests, and when the re-authentication fails Do returns the error
\* without sending again and without replacing the connection.
C30_ReauthenticateOn401 ==
    authLog.calls > 0 =>
        LET e == authLog.env
            unauthorized == e.first = <<StatusUnauthorized>>
        IN /\ authLog.reauths = (IF unauthorized THEN 1 ELSE 0)
           /\ Len(authLog.sentOn) \in 1..2
           /\ authLog.sentOn[1] = authLog.before
           /\ ~unauthorized =>
                  /\ Len(authLog.sentOn) = 1
                  /\ authLog.resp = e.first
                  /\ authLog.err # "" <=> e.first = <<>>
                  /\ authConn.conn = authLog.before
           /\ (unauthorized /\ e.auth = "ok") =>
                  /\ Len(authLog.sentOn) = 2
                  /\ authConn.conn # authLog.before
                  /\ authLog.sentOn[2] = authConn.conn
                  /\ authLog.resp = e.second
                  /\ authLog.err # "" <=> e.second = <<>>
           /\ (unauthorized /\ e.auth # "ok") =>
                  /\ Len(authLog.sentOn) = 1
                  /\ authLog.resp = <<>>
                  /\ authLog.err # ""
                  /\ authConn.conn = authLog.before

\* a Do got 401 twice: it has re-authenticated once, sent twice and
\* returned the second 401
C30_Witness ==
    /\ authLog.calls > 0
    /\ authLog.env.first = <<StatusUnauthorized>>
    /\ authLog.env.second = <<StatusUnauthorized>>
    /\ authLog.reauths = 1
    /\ Len(authLog.sentOn) = 2
    /\ authLog.resp = <<StatusUnauthorized>>
    /\ authLog.err = ""

\* a Do whose re-authentication failed after an earlier Do had replaced the
\* connection
C30_FailedReauthentication ==
    /\ authLog.env.first = <<StatusUnauthorized>>
    /\ authLog.env.auth = "set"
    /\ authLog.err = "Unable to set auth"
    /\ authLog.before # authConn.base
    /\ authConn.conn = authLog.before

(***************************************************************************)
(* Properties of the backup handler in state Create.                       *)
(***************************************************************************)
\* C31: a temporary error of the backup-create call makes Handle return
\* that error and leaves the status of the backup object exactly as it was
\* (same state, no backup recorded), so that the operation is retried.
C31_TemporaryErrorKeepsStatus ==
    (backupLog.calls > 0 /\ backupLog.createError.kind = "temporary") =>
        /\ backupLog.err = backupLog.createError.text
        /\ backupObj.status = backupLog.before
        /\ backupObj.status.state = "Create"
        /\ backupObj.status.backup = <<>>
        /\ backupLog.created = 0

\* a second Handle has met a temporary error and left the object in Create
C31_Witness ==
    /\ backupLog.calls = 2
    /\ backupLog.createError.kind = "temporary"
    /\ backupLog.err # ""
    /\ backupObj.status = NewBackupStatus("Create")

\* C32: a fatal error of the backup-create call makes Handle return no
\* error and moves the object to Failed with a message that names the
\* transition from Create to Failed and the error, with no backup recorded
\* and Available false; a create that succeeds moves it to Ready with
\* Available true and exactly one backup created.
C32_FatalFailsSuccessReady ==
    backupLog.calls > 0 =>
        /\ backupLog.createError.kind = "fatal" =>
               /\ backupLog.err = ""
               /\ backupObj.status.state = "Failed"
               /\ backupObj.status.message =
                      <<"Create", "Failed", backupLog.createError.text>>
               /\ backupObj.status.backup = <<>>
               /\ ~backupObj.status.available
               /\ backupLog.created = 0
        /\ backupLog.createError.kind = "none" =>
               /\ backupLog.err = ""
               /\ backupObj.status.state = "Ready"
               /\ backupObj.status.available
               /\ backupLog.created = 1
               /\ Len(backupObj.status.backup) = 1
               /\ backupObj.status.backup[1].id \in backupMock.ids

\* a create has succeeded after a temporary error
C32_Witness ==
    /\ backupLog.calls = 2
    /\ backupLog.createError.kind = "none"
    /\ backupObj.status.state = "Ready"
    /\ backupObj.status.available
    /\ backupMock.ids = {1}

\* a fatal error has failed the object
C32_FatalWitness ==
    /\ backupLog.createError = [kind |-> "fatal", text |-> "timeout"]
    /\ backupObj.status.state = "Failed"
    /\ backupObj.status.message = <<"Create", "Failed", "timeout">>

(***************************************************************************)
(* Properties of the stop-sync finalizer of a deployment replication.      *)
(***************************************************************************)
\* C33: after maxCancelFailures failed cancel attempts the next stop-sync
\* attempt is issued with Force set; with fewer failures and a source
\* deployment that exists and is not being deleted Force is not set.  Every
\* failed cancel other than precondition-failed adds exactly one to
\* CancelFailures.
C33_ForceAfterMaxFailures ==
    replLog.inspect.force # <<>> =>
        /\ replLog.before >= maxCancelFailures => replLog.inspect.force[1]
        /\ (replLog.before < maxCancelFailures /\ replWorld.source = "present") =>
               ~replLog.inspect.force[1]
        /\ replObj.cancelFailures =
               replLog.before + (IF replLog.cancel = "error" THEN 1 ELSE 0)

\* what holds: Force is set from the attempt after maxCancelFailures + 1
\* failures on, or when the source is gone or being deleted
C33_ForceAfterOneMore ==
    replLog.inspect.force # <<>> =>
        /\ replLog.inspect.force[1] <=>
               (replLog.before > maxCancelFailures
                    \/ replWorld.source \in {"gone", "deleting"})
        /\ replObj.cancelFailures =
               replLog.before + (IF replLog.cancel = "error" THEN 1 ELSE 0)

\* the stop-sync finalizer goes only after the phase is Failed or the cancel
\* request succeeded or reported precondition-failed
RemovedOnlyAfterCancel ==
    [][(replObj.finalizer /\ ~replObj'.finalizer) =>
          \/ replObj.phase = "Failed"
          \/ replLog'.cancel \in {"", "precondition failed"}]_vars

\* C39: under repeated runFinalizers calls and a sync master that comes to
\* accept the cancel request, the stop-sync finalizer of a replication that
\* is marked for deletion is eventually removed in every case, also when
\* the destination deployment is gone or is being deleted; and it is
\* removed only after the phase is Failed or the cancel request succeeded
\* or reported precondition-failed.
C39_FinalizerEventuallyRemoved ==
    /\ <>(~replObj.finalizer)
    /\ RemovedOnlyAfterCancel

\* what holds: the finalizer is eventually removed when the phase is Failed
\* or the destination is neither gone nor being deleted, and never otherwise
C39_RemovedUnlessDestinationGone ==
    /\ (replObj.phase = "Failed" \/ replWorld.destination \in {"present", "unnamed"})
           => <>(~replObj.finalizer)
    /\ (replObj.phase # "Failed" /\ replWorld.destination \in {"gone", "deleting"})
           => [](replObj.finalizer)
    /\ RemovedOnlyAfterCancel

(***************************************************************************)
(* Properties of Invalidate against a Refresh in progress.                 *)
(***************************************************************************)
\* C34: an Invalidate of a kind issued through GetThrottles() is never
\* lost: whenever it is issued, also while a Refresh is in progress, the
\* next Refresh that starts after it loads that kind whatever the delay of
\* its throttle.
C34_InvalidateNeverLost ==
    refreshCopy # <<>> => refreshCopy[1].owed \subseteq refreshCopy[1].loaded

\* what holds: an Invalidate issued while no Refresh is in progress makes
\* the next Refresh load the kind
C34_QuietInvalidateHonoured ==
    refreshCopy # <<>> => refreshCopy[1].owedQuiet \subseteq refreshCopy[1].loaded

(***************************************************************************)
(* Properties of the writes of the shared map.                             *)
(***************************************************************************)
\* C35: in getAgencyConfigResults and Connections.Filter the accesses of
\* the shared result map are free of races: no two goroutines write the map
\* at the same time, and no write overlaps another access, for two
\* connections or more.
C35_MapWritesOneAtATime ==
    fanKind.kind \in MapFanKinds =>
        /\ Cardinality(Writing(fanWorkers)) <= 1
        /\ \A i \in FanInputs : fanWorkers[i] # "racing"

\* what holds: the caller reads the map when no goroutine writes it any more
C35_NoWriteOverlapsTheRead ==
    (fanKind.kind \in MapFanKinds /\ fanState = "joined") => Writing(fanWorkers) = {}

(***************************************************************************)
(* Properties of the plan-clean annotation.                                *)
(***************************************************************************)
\* C36: a plan-clean request is never lost: the annotation is never removed
\* by a tick while the plan it asked to clear remains; either the plan is
\* cleared or the annotation is still there after the tick.
C36_PlanCleanNeverLost ==
    [][(TickStep /\ annotations.planClean /\ ~annotations'.planClean)
          => IsPlanEmpty(st')]_vars

\* what holds: a tick that finds the annotation does not call CreatePlan,
\* and when both of its writes succeed the plan is empty afterwards
C36_NoCreatePlanWithAnnotation ==
    [][(TickStep /\ annotations.planClean) =>
          /\ tickLog'.exit \notin {"PlanGenerated", "CreatePlanFailed"}
          /\ tickLog'.exit # "PlanCleanStatusFailed" =>
                (annotations'.planClean \/ IsPlanEmpty(st'))]_vars

(***************************************************************************)
(* Properties of the election of the leader.                               *)
(***************************************************************************)
\* C37: the outcome of a refresh of the agent set (success or failure,
\* leader, commit index, health map) is determined by the responses of the
\* agents alone: two refreshes that get the same responses end with the
\* same outcome, also when the responders name different leaders.
C37_SameResponsesSameOutcome ==
    [][(refreshLog.called /\ refreshLog'.called
            /\ refreshLog'.responses = refreshLog.responses)
          => (agentSet' = agentSet /\ refreshLog'.err = refreshLog.err)]_vars

\* what holds: responses that name one leader at most decide the outcome
C37_OneNamedLeaderDecides ==
    [][(refreshLog.called /\ refreshLog'.called
            /\ refreshLog'.responses = refreshLog.responses
            /\ Cardinality(LeaderCandidates(refreshLog.responses)) <= 1)
          => (agentSet' = agentSet /\ refreshLog'.err = refreshLog.err)]_vars

\* what holds: a refresh succeeds only when the leader it chose is a known
\* agent whose own response carried no error
C37_SuccessNeedsAnsweringLeader ==
    (refreshLog.called /\ refreshLog.err = "") =>
        /\ agentSet.result # NoAgentSetResult
        /\ agentSet.result[1].id \in Agents
        /\ ~refreshLog.responses[agentSet.result[1].id].err

(***************************************************************************)
(* Properties of a tick on a deployment in maintenance.                    *)
(***************************************************************************)
\* C38: when the deployment exists, is not marked for deletion and has the
\* maintenance annotation, a tick whose refresh of the resource cache
\* succeeded changes nothing: it accepts no spec, writes no status and no
\* condition, does not refresh the member state or the agency cache, makes
\* and executes no plan, and returns the interval it was given.
C38_MaintenanceTickChangesNothing ==
    [][(TickStep /\ objState = "present" /\ annotations.maintenance
            /\ tickLog'.exit # "RefreshFailed")
          => /\ tickLog'.exit = "Maintenance"
             /\ UNCHANGED <<crSpec, objState, annotations, st, recentInspectionErrors,
                            stopped>>
             /\ tickLog'.writes = <<>>
             /\ tickLog'.exec = "none"
             /\ tickLog'.steps = <<"ResourceCache">>
             /\ tickLog'.err = "none"
             /\ tickLog'.result = tickLog'.lastInterval]_vars

\* a tick found the deployment in maintenance, with a status that earlier
\* ticks had written, and returned an interval other than the minimum
C38_Witness ==
    /\ tickLog.exit = "Maintenance"
    /\ annotations.maintenance
    /\ st # EmptyStatus
    /\ tickLog.result = maxInspectionInterval

(***************************************************************************)
(* Properties of the accepted spec version under the UpToDate condition.   *)
(***************************************************************************)
\* C40: in every status that ticks reach from the empty status, UpToDate
\* true implies that AcceptedSpecVersion is set, so the writes of UpToDate
\* that take their hash from AcceptedSpecVersion never meet a nil pointer,
\* and no tick ends in a panic.
C40_UpToDateHasAcceptedVersion ==
    /\ IsTrue(st.conditions, "UpToDate") => st.acceptedSpecVersion # <<>>
    /\ tickLog.err # "panic"
    /\ tickLog.exit # "NilAcceptedSpecVersion"
    /\ tickLog.exit \in {"UpToDateFalse", "UpToDateTrue"} =>
          \A k \in 1..Len(tickLog.writes) :
              tickLog.writes[k].type = "UpToDate" =>
                  <<tickLog.writes[k].hash>> = st.acceptedSpecVersion

\* a tick has set UpToDate to false on a status whose UpToDate was true,
\* with the accepted spec version as the hash
C40_Witness ==
    /\ tickLog.exit = "UpToDateFalse"
    /\ Wrote("UpToDate", FALSE)
    /\ st.acceptedSpecVersion # <<>>

====
